---- MODULE Spec2Model ----
(***************************************************************************)
(* Multi-cloud cost dashboard backend: the aggregation layer of             *)
(* backend/app/api/provider_routes.py.  A request names one of the seven    *)
(* "all providers" endpoints; the handler walks the active-provider list,   *)
(* builds an adapter per provider through CloudProviderFactory.create,      *)
(* calls one operation on it and merges what the adapters return.           *)
(*                                                                         *)
(* Python values are encoded as follows.                                    *)
(*   - a dict field that may be absent, None, a number or a string is a     *)
(*     record [t, v, s]: t is "missing", "none", "num" or "str", v the      *)
(*     number, s the string as a sequence of character codes;               *)
(*   - money is counted in thousandths of a currency unit, so that          *)
(*     round(x, 2) is a real rounding (to a multiple of 10);                *)
(*   - an HTTP response is [status, body].                                  *)
(***************************************************************************)
EXTENDS Integers, Sequences, FiniteSets, TLC

VARIABLES
    endpoint,   \* the route being served
    use_mock,   \* os.getenv('USE_MOCK_DATA') == 'true'
    days_ok,    \* int(request.args.get("days", 7)) parses
    active,     \* auth_manager.get_active_providers(), as the list of names
    outcome,    \* outcome[i]: what the i-th active provider's adapter does
    pc,         \* "start" before the handler has run, "done" after
    response,   \* the handler's HTTP response
    _providers, \* CloudProviderFactory._providers, the class-level registry
    sdk,        \* which cloud SDKs the adapter modules could import
    calls,      \* the calls made on CloudProviderFactory, with what they gave
    adapter,    \* an adapter object under construction or in use
    request,    \* the HTTP request of a protected or an account route
    db,         \* the database: the users and password_reset_tokens tables
    now,        \* datetime.now(timezone.utc), in ticks
    history     \* what the account routes have issued and accepted so far

vars == <<endpoint, use_mock, days_ok, active, outcome, pc, response,
          _providers, sdk, calls, adapter, request, db, now, history>>

----------------------------------------------------------------------------
(* Bounds of the model. *)

\* at most this many items are returned by all adapters together in a request
MaxItems == 3

\* at most this many calls are made on CloudProviderFactory in a behaviour
MaxCalls == 3

\* at most this many operations are called on one adapter object
MaxOps == 2

\* at most this many requests reach the account routes in a behaviour
MaxRequests == 3

\* the clock stops at this tick
MaxTime == 3

----------------------------------------------------------------------------
(* Python values. *)

Missing == [t |-> "missing", v |-> 0, s |-> <<>>]
None == [t |-> "none", v |-> 0, s |-> <<>>]
Num(n) == [t |-> "num", v |-> n, s |-> <<>>]
Str(chars) == [t |-> "str", v |-> 0, s |-> chars]

\* d.get(key, default): the default only when the key is absent
Get(val, default) == IF val.t = "missing" THEN default ELSE val

\* a + b raises TypeError unless both are numbers
AddRaises(val) == val.t # "num"

RECURSIVE StrLess(_, _)
\* a < b for Python strings: lexicographic by character code
StrLess(a, b) ==
    IF b = <<>> THEN FALSE
    ELSE IF a = <<>> THEN TRUE
    ELSE IF Head(a) # Head(b) THEN Head(a) < Head(b)
    ELSE StrLess(Tail(a), Tail(b))

\* a < b for two sort keys of comparable type
KeyLess(a, b) == IF a.t = "num" THEN a.v < b.v ELSE StrLess(a.s, b.s)

\* list.sort raises TypeError when a key is None and a comparison is made
\* (every element of a list of two or more is compared at least once)
SortRaises(keys) ==
    /\ Len(keys) >= 2
    /\ \/ \E k \in 1..Len(keys) : keys[k].t = "none"
       \/ \E k, l \in 1..Len(keys) : keys[k].t # keys[l].t

RECURSIVE InsertDesc(_, _)
\* x goes before the first entry whose key is smaller than its own, that is
\* behind every entry with an equal key: sort(reverse=True) is stable
InsertDesc(s, x) ==
    IF s = <<>> THEN <<x>>
    ELSE IF KeyLess(Head(s).key, x.key) THEN <<x>> \o s
    ELSE <<Head(s)>> \o InsertDesc(Tail(s), x)

RECURSIVE SortPairsDesc(_)
SortPairsDesc(s) ==
    IF s = <<>> THEN <<>>
    ELSE InsertDesc(SortPairsDesc(SubSeq(s, 1, Len(s) - 1)), s[Len(s)])

\* round half to even of n / d, d > 0
RoundDiv(n, d) ==
    LET q == n \div d
        r == n % d
    IN  IF 2 * r < d THEN q
        ELSE IF 2 * r > d THEN q + 1
        ELSE IF q % 2 = 0 THEN q ELSE q + 1

\* round(x, 2) on an amount in thousandths
Round2(x) == RoundDiv(x, 10) * 10

\* an amount as it is counted in a sum: a missing amount counts as 0
Amount(val) == IF val.t = "num" THEN val.v ELSE 0

RECURSIVE SumAmounts(_)
SumAmounts(vals) ==
    IF vals = <<>> THEN 0 ELSE Amount(Head(vals)) + SumAmounts(Tail(vals))

\* bool(x): the truthiness that "not a.get('acknowledged')" tests
Truthy(val) ==
    \/ val.t = "bool" /\ val.v = 1
    \/ val.t = "num" /\ val.v # 0
    \/ val.t = "str" /\ val.s # <<>>

Bool(b) == [t |-> "bool", v |-> IF b THEN 1 ELSE 0, s |-> <<>>]

\* a string-valued key the dict does not have
Absent == "<absent>"

----------------------------------------------------------------------------
(* The collaborators of the handlers. *)

\* the providers this deployment has configured
Providers == {"aws", "azure"}

RECURSIVE DistinctSeqs(_, _)
\* the sequences of at most n distinct elements of S
DistinctSeqs(S, n) ==
    IF n = 0 THEN {<<>>}
    ELSE LET shorter == DistinctSeqs(S, n - 1)
         IN  shorter \cup
             UNION {{Append(s, x) : x \in S \ {s[i] : i \in 1..Len(s)}} :
                    s \in {u \in shorter : Len(u) = n - 1}}

\* auth_manager.get_active_providers(): some of the configured providers, in
\* any order, each listed once
get_active_providers == DistinctSeqs(Providers, Cardinality(Providers))

\* one provider's pass through
\*     cloud = CloudProviderFactory.create(provider, auth_manager.get_config(provider))
\*     data = cloud.<operation>()
\* "config_raise": get_config raises; "create_raise": create raises;
\* "op_raise": the operation raises; "ok": the operation returns value
ProviderRaises(o) == o.kind \in {"config_raise", "create_raise", "op_raise"}

\* str(e) of the exception a failing provider raised
ErrorMessage(o) ==
    CASE o.kind = "config_raise" -> "config lookup failed"
      [] o.kind = "create_raise" -> "Unsupported provider"
      [] o.kind = "op_raise" -> "operation failed"
      [] OTHER -> "unsupported operand type(s) for +="

\* CloudProviderFactory.create: with USE_MOCK_DATA set it returns
\* MockProvider(config), whose _validate_config accepts every config, and
\* never reaches the registry lookup that raises "Unsupported provider"
CreateMayRaise(mock) == ~mock

Ok200(body) == [status |-> 200, body |-> body]
\* the outer "except Exception as e: return jsonify({"error": str(e)}), 500"
Error500(msg) == [status |-> 500, body |-> [error |-> msg]]
NoResponse == [status |-> 0, body |-> <<>>]

\* no request of a protected or an account route is being served
NoHttpRequest == <<>>

\* the two tables, without a row
EmptyDb == [users |-> {}, tokens |-> {}]

\* no account route has been served
NoHistory == [issued |-> <<>>, used |-> {}, hashed |-> 0]

\* a tagging that keeps a provider value the adapter had set
\* (item.setdefault('provider', provider))
TagItemsKeep(items, provider) ==
    [k \in 1..Len(items) |->
        IF items[k].provider = Absent
        THEN [items[k] EXCEPT !.provider = provider]
        ELSE items[k]]

\* item['provider'] = provider, on every item of one adapter's list
TagItems(items, provider) ==
    [k \in 1..Len(items) |-> [items[k] EXCEPT !.provider = provider]]

\* the items of a sorted list of [key, item] pairs
ItemsOf(pairs) == [k \in 1..Len(pairs) |-> pairs[k].item]

----------------------------------------------------------------------------
(* GET /anomalies/all *)

RECURSIVE CollectAnomalies(_, _, _)
\* all_anomalies after the loop has handled the first n providers
CollectAnomalies(act, out, n) ==
    IF n = 0 THEN <<>>
    ELSE LET prev == CollectAnomalies(act, out, n - 1)
         IN  IF ProviderRaises(out[n]) THEN prev
             ELSE prev \o TagItems(out[n].value, act[n])

all_anomalies(act, out) ==
    LET all == CollectAnomalies(act, out, Len(act))
        pairs == [k \in 1..Len(all) |->
                    [key |-> Get(all[k].deviation_percent, Num(0)), item |-> all[k]]]
        keys == [k \in 1..Len(all) |-> pairs[k].key]
    IN  IF SortRaises(keys) THEN Error500("'<' not supported")
        ELSE Ok200(ItemsOf(SortPairsDesc(pairs)))

----------------------------------------------------------------------------
(* GET /recommendations/all *)

RECURSIVE SavingsLoop(_, _, _)
\* the per-item loop from item k on: the running total it leaves behind, and
\* whether it raised ("total_savings += rec.get(...)" on a value that is no
\* number)
SavingsLoop(items, k, total) ==
    IF k > Len(items) THEN [raised |-> FALSE, total |-> total]
    ELSE LET s == Get(items[k].potential_savings_monthly, Num(0))
         IN  IF AddRaises(s) THEN [raised |-> TRUE, total |-> total]
             ELSE SavingsLoop(items, k + 1, total + s.v)

RECURSIVE CollectRecommendations(_, _, _)
\* all_recommendations and total_savings after the first n providers
CollectRecommendations(act, out, n) ==
    IF n = 0 THEN [list |-> <<>>, total |-> 0]
    ELSE LET prev == CollectRecommendations(act, out, n - 1)
             loop == SavingsLoop(out[n].value, 1, prev.total)
         IN  IF ProviderRaises(out[n]) THEN prev
             ELSE IF loop.raised THEN [list |-> prev.list, total |-> loop.total]
             ELSE [list |-> prev.list \o TagItems(out[n].value, act[n]),
                   total |-> loop.total]

all_recommendations(act, out) ==
    LET acc == CollectRecommendations(act, out, Len(act))
        pairs == [k \in 1..Len(acc.list) |->
                    [key |-> Get(acc.list[k].potential_savings_monthly, Num(0)),
                     item |-> acc.list[k]]]
        keys == [k \in 1..Len(acc.list) |-> pairs[k].key]
        sorted == ItemsOf(SortPairsDesc(pairs))
    IN  IF SortRaises(keys) THEN Error500("'<' not supported")
        ELSE Ok200([recommendations |-> sorted,
                    total_potential_savings_monthly |-> Round2(acc.total),
                    total_potential_savings_yearly |-> Round2(acc.total * 12),
                    recommendation_count |-> Len(sorted)])

----------------------------------------------------------------------------
(* GET /alerts/all *)

RECURSIVE CollectAlerts(_, _, _)
\* all_alerts after the loop has handled the first n providers
CollectAlerts(act, out, n) ==
    IF n = 0 THEN <<>>
    ELSE LET prev == CollectAlerts(act, out, n - 1)
         IN  IF ProviderRaises(out[n]) THEN prev
             ELSE prev \o TagItems(out[n].value, act[n])

\* len([a for a in all_alerts if a.get('severity') == sev])
SeverityCount(alerts, sev) ==
    Cardinality({k \in 1..Len(alerts) : alerts[k].severity = sev})

all_alerts(act, out) ==
    LET all == CollectAlerts(act, out, Len(act))
        pairs == [k \in 1..Len(all) |->
                    [key |-> Get(all[k].created_at, Str(<<>>)), item |-> all[k]]]
        keys == [k \in 1..Len(all) |-> pairs[k].key]
        sorted == ItemsOf(SortPairsDesc(pairs))
    IN  IF SortRaises(keys) THEN Error500("'<' not supported")
        ELSE Ok200([alerts |-> sorted,
                    total_count |-> Len(sorted),
                    unacknowledged_count |->
                        Cardinality({k \in 1..Len(sorted) :
                                        ~Truthy(sorted[k].acknowledged)}),
                    severity_counts |->
                        [critical |-> SeverityCount(sorted, "critical"),
                         high |-> SeverityCount(sorted, "high"),
                         warning |-> SeverityCount(sorted, "warning"),
                         medium |-> SeverityCount(sorted, "medium"),
                         low |-> SeverityCount(sorted, "low")]])

----------------------------------------------------------------------------
(* GET /budgets/all *)

RECURSIVE BudgetLoop(_, _, _, _)
\* the per-item loop from item k on: the running totals it leaves behind, and
\* whether it raised; only budgets of type "overall" reach the two additions
BudgetLoop(items, k, tb, ts) ==
    IF k > Len(items) THEN [raised |-> FALSE, total_budget |-> tb, total_spent |-> ts]
    ELSE IF items[k].type # "overall" THEN BudgetLoop(items, k + 1, tb, ts)
    ELSE LET b == Get(items[k].budget_amount, Num(0))
             s == Get(items[k].spent_amount, Num(0))
         IN  IF AddRaises(b)
             THEN [raised |-> TRUE, total_budget |-> tb, total_spent |-> ts]
             ELSE IF AddRaises(s)
             THEN [raised |-> TRUE, total_budget |-> tb + b.v, total_spent |-> ts]
             ELSE BudgetLoop(items, k + 1, tb + b.v, ts + s.v)

RECURSIVE CollectBudgets(_, _, _)
\* all_budgets, total_budget and total_spent after the first n providers
CollectBudgets(act, out, n) ==
    IF n = 0 THEN [list |-> <<>>, total_budget |-> 0, total_spent |-> 0]
    ELSE LET prev == CollectBudgets(act, out, n - 1)
             loop == BudgetLoop(out[n].value, 1, prev.total_budget, prev.total_spent)
         IN  IF ProviderRaises(out[n]) THEN prev
             ELSE IF loop.raised
             THEN [list |-> prev.list, total_budget |-> loop.total_budget,
                   total_spent |-> loop.total_spent]
             ELSE [list |-> prev.list \o TagItems(out[n].value, act[n]),
                   total_budget |-> loop.total_budget,
                   total_spent |-> loop.total_spent]

\* the utilization cut off after the first decimal instead of rounded
OverallUtilizationTruncated(tb, ts) == IF tb > 0 THEN (ts * 1000) \div tb ELSE 0

\* round(total_spent / total_budget * 100, 1) if total_budget > 0 else 0, in
\* tenths of a percent (the exact quotient rounded, half to even)
OverallUtilization(tb, ts) == IF tb > 0 THEN RoundDiv(ts * 1000, tb) ELSE 0

all_budgets(act, out) ==
    LET acc == CollectBudgets(act, out, Len(act))
    IN  Ok200([budgets |-> acc.list,
               total_budget |-> Round2(acc.total_budget),
               total_spent |-> Round2(acc.total_spent),
               total_remaining |-> Round2(acc.total_budget - acc.total_spent),
               overall_utilization |->
                   OverallUtilization(acc.total_budget, acc.total_spent),
               at_risk_count |->
                   Cardinality({k \in 1..Len(acc.list) :
                                   acc.list[k].status = "at_risk"})])

----------------------------------------------------------------------------
(* GET /costs/summary *)

RECURSIVE CollectSummaryAbort(_, _, _)
\* a loop that is left at the first provider that raises
CollectSummaryAbort(act, out, n) ==
    IF n = 0 THEN <<>>
    ELSE LET prev == CollectSummaryAbort(act, out, n - 1)
         IN  IF Len(prev) < n - 1 THEN prev
             ELSE IF ProviderRaises(out[n]) THEN prev
             ELSE Append(prev, [provider |-> act[n], mtd_cost |-> out[n].value,
                                error |-> Absent, status |-> "active"])

RECURSIVE CollectSummary(_, _, _)
\* summary after the loop has handled the first n providers
CollectSummary(act, out, n) ==
    IF n = 0 THEN <<>>
    ELSE LET prev == CollectSummary(act, out, n - 1)
         IN  IF ProviderRaises(out[n])
             THEN Append(prev, [provider |-> act[n], mtd_cost |-> Missing,
                                error |-> ErrorMessage(out[n]), status |-> "error"])
             ELSE Append(prev, [provider |-> act[n], mtd_cost |-> out[n].value,
                                error |-> Absent, status |-> "active"])

unified_costs_summary(act, out) == Ok200(CollectSummary(act, out, Len(act)))

----------------------------------------------------------------------------
(* GET /forecast/all and GET /services/breakdown/all.  Both read two numeric *)
(* fields of the dict the adapter returns; a is the first field the handler  *)
(* adds to its totals, b the second.                                         *)

\* an entry that records the provider without the error field
ErrorEntryWithoutError(msg) == [error |-> Absent, a |-> Missing, b |-> Missing]

\* forecasts[provider] = {"error": str(e)}
ErrorEntry(msg) == [error |-> msg, a |-> Missing, b |-> Missing]

\* forecasts[provider] = forecast
DataEntry(d) == [error |-> Absent, a |-> d.a, b |-> d.b]

RECURSIVE CollectMap(_, _, _)
\* the providers map and the two running totals after the first n providers
CollectMap(act, out, n) ==
    IF n = 0 THEN [map |-> <<>>, total_a |-> 0, total_b |-> 0]
    ELSE LET prev == CollectMap(act, out, n - 1)
             a == Get(out[n].value.a, Num(0))
             b == Get(out[n].value.b, Num(0))
             Put(entry) == (act[n] :> entry) @@ prev.map
         IN  IF ProviderRaises(out[n])
             THEN [prev EXCEPT !.map = Put(ErrorEntry(ErrorMessage(out[n])))]
             ELSE IF AddRaises(a)
             THEN [prev EXCEPT !.map = Put(ErrorEntry("unsupported operand"))]
             ELSE IF AddRaises(b)
             THEN [map |-> Put(ErrorEntry("unsupported operand")),
                   total_a |-> prev.total_a + a.v, total_b |-> prev.total_b]
             ELSE [map |-> Put(DataEntry(out[n].value)),
                   total_a |-> prev.total_a + a.v,
                   total_b |-> prev.total_b + b.v]

\* a: current_mtd, b: projected_eom
all_forecasts(parsed, act, out) ==
    LET acc == CollectMap(act, out, Len(act))
    IN  IF ~parsed THEN Error500("invalid literal for int()")
        ELSE Ok200([providers |-> acc.map,
                    total_current_mtd |-> Round2(acc.total_a),
                    total_projected_eom |-> Round2(acc.total_b)])

\* a: total_cost, b: total_services
all_services_breakdown(act, out) ==
    LET acc == CollectMap(act, out, Len(act))
    IN  Ok200([providers |-> acc.map,
               total_cost |-> Round2(acc.total_a),
               total_services |-> acc.total_b])

----------------------------------------------------------------------------
(* CloudProviderFactory and the construction of the adapter classes.  A      *)
(* config dict is a record of the keys the adapters look at, each Absent or  *)
(* set; an exception is the record [type, message].                          *)

\* str.lower() on the identifiers of the model
lower(s) ==
    CASE s = "AWS" -> "aws"
      [] s = "Azure" -> "azure"
      [] s = "Oracle" -> "oracle"
      [] s = "Admin" -> "admin"
      [] OTHER -> s

\* the class body of CloudProviderFactory
InitialProviders ==
    [n \in {"gcp", "aws", "azure", "mock", "mock_gcp", "mock_aws", "mock_azure"} |->
        CASE n = "gcp" -> "GCPProvider"
          [] n = "aws" -> "AWSProvider"
          [] n = "azure" -> "AzureProvider"
          [] OTHER -> "MockProvider"]

\* AWS_AVAILABLE and AZURE_AVAILABLE as the try/import at the head of the
\* adapter modules sets them; gcp stands for what decides whether
\* GCPProvider(config) returns
AllInstalled == [aws |-> TRUE, azure |-> TRUE, gcp |-> TRUE]

NoError == [type |-> "none", message |-> ""]
ImportError(msg) == [type |-> "ImportError", message |-> msg]
ValueError(msg) == [type |-> "ValueError", message |-> msg]

\* a validation that leaves the account to the first query
AWSProvider_validate_config_late(config, installed) ==
    IF ~installed.aws THEN ImportError("AWS SDK not installed. Run: pip install boto3")
    ELSE NoError

\* the _validate_config of each class: the exception it raises, or NoError
AWSProvider_validate_config(config, installed) ==
    IF ~installed.aws THEN ImportError("AWS SDK not installed. Run: pip install boto3")
    ELSE IF config.account_id = Absent THEN ValueError("AWS account_id required")
    ELSE NoError

AzureProvider_validate_config(config, installed) ==
    IF ~installed.azure
    THEN ImportError("Azure SDK not installed. Run: pip install azure-identity azure-mgmt-costmanagement")
    ELSE IF config.subscription_id = Absent
    THEN ValueError("Azure subscription_id required")
    ELSE NoError

MockProvider_validate_config(config, installed) == NoError

\* GCPProvider is not part of the sources at hand
GCPProvider_validate_config(config, installed) ==
    IF ~installed.gcp THEN ValueError("GCP configuration rejected") ELSE NoError

\* what register_provider may be given: a class that accepts every config
CustomProvider_validate_config(config, installed) == NoError

_validate_config(cls, config, installed) ==
    CASE cls = "AWSProvider" -> AWSProvider_validate_config(config, installed)
      [] cls = "AzureProvider" -> AzureProvider_validate_config(config, installed)
      [] cls = "MockProvider" -> MockProvider_validate_config(config, installed)
      [] cls = "GCPProvider" -> GCPProvider_validate_config(config, installed)
      [] OTHER -> CustomProvider_validate_config(config, installed)

\* no adapter object
NoAdapter ==
    [kind |-> "none", cls |-> Absent, config |-> <<>>, provider_name |-> Absent,
     error |-> NoError, validations |-> 0, sdk_calls |-> 0, ops |-> 0,
     op |-> Absent, args |-> <<>>, result |-> <<>>]

\* cls(config): BaseCloudProvider.__init__ keeps the config and validates it;
\* MockProvider.__init__ then reads its display name from the config.  The
\* outcome is the object, or the exception in error and no object.
__init__(cls, config, installed) ==
    LET raised == _validate_config(cls, config, installed)
    IN  IF raised # NoError
        THEN [NoAdapter EXCEPT !.kind = "raise", !.error = raised, !.validations = 1]
        ELSE [NoAdapter EXCEPT
                !.kind = "instance", !.cls = cls, !.config = config,
                !.validations = 1,
                !.provider_name =
                    IF cls # "MockProvider" THEN Absent
                    ELSE IF config.name = Absent THEN "mock" ELSE config.name]

\* a create that keeps a name the config already has
\* (config.setdefault('name', provider))
InjectNameIfAbsent(config, provider) ==
    IF config.name = Absent THEN [config EXCEPT !.name = provider] ELSE config

\* config['name'] = provider
InjectName(config, provider) == [config EXCEPT !.name = provider]

\* a lookup under the identifier as it was given
provider_as_given(provider) == provider

\* provider_lower = provider.lower()
provider_lower(provider) == lower(provider)

\* a registration under the name as it was given
registered_as_given(name) == name

\* name.lower(), the key register_provider writes
registered_name(name) == lower(name)

\* CloudProviderFactory.create: what it returns or raises (returned), the
\* caller's config mapping after the call (config), and the classes whose
\* constructor it called (constructed)
create(provider, config, mock, registry, installed) ==
    IF mock
    THEN [returned |-> __init__("MockProvider", InjectName(config, provider), installed),
          config |-> InjectName(config, provider),
          constructed |-> <<"MockProvider">>]
    ELSE IF provider_lower(provider) \notin DOMAIN registry
    THEN [returned |-> [NoAdapter EXCEPT !.kind = "raise",
                                         !.error = ValueError("Unsupported provider")],
          config |-> config,
          constructed |-> <<>>]
    ELSE [returned |-> __init__(registry[provider_lower(provider)], config, installed),
          config |-> config,
          constructed |-> <<registry[provider_lower(provider)]>>]

\* CloudProviderFactory.register_provider: the registry it leaves behind
register_provider(name, provider_class, registry) ==
    (registered_name(name) :> provider_class) @@ registry

----------------------------------------------------------------------------
(* What the adapters return.  The extension operations of BaseCloudProvider *)
(* are there to be overridden, so their results are inputs of the model:    *)
(* dicts whose fields may be absent, None or a value of the documented type.*)

AnomalyItems ==
    {[provider |-> Absent, deviation_percent |-> Num(40)],
     [provider |-> "azure", deviation_percent |-> Num(-5)],
     [provider |-> Absent, deviation_percent |-> Missing],
     [provider |-> Absent, deviation_percent |-> None]}

RecommendationItems ==
    {[provider |-> Absent, potential_savings_monthly |-> Num(100000)],
     [provider |-> "azure", potential_savings_monthly |-> Num(300004)],
     [provider |-> Absent, potential_savings_monthly |-> Missing],
     [provider |-> Absent, potential_savings_monthly |-> None]}

\* created_at strings, shortened to the characters that tell them apart
January == <<0, 1>>
JanuaryNoon == <<0, 1, 2>>
June == <<0, 6>>

AlertItems ==
    {[provider |-> Absent, created_at |-> Str(June), severity |-> "critical",
      acknowledged |-> Bool(FALSE)],
     [provider |-> "azure", created_at |-> Str(January), severity |-> "low",
      acknowledged |-> Bool(TRUE)],
     [provider |-> Absent, created_at |-> Str(JanuaryNoon), severity |-> "warning",
      acknowledged |-> Bool(TRUE)],
     [provider |-> Absent, created_at |-> Missing, severity |-> Absent,
      acknowledged |-> Missing],
     [provider |-> Absent, created_at |-> None, severity |-> "high",
      acknowledged |-> Bool(FALSE)],
     [provider |-> Absent, created_at |-> Str(June), severity |-> "medium",
      acknowledged |-> Missing]}

BudgetItems ==
    {[provider |-> Absent, type |-> "overall", budget_amount |-> Num(10000),
      spent_amount |-> Num(4000), status |-> "on_track"],
     [provider |-> "azure", type |-> "overall", budget_amount |-> Num(5000),
      spent_amount |-> Num(6004), status |-> "at_risk"],
     [provider |-> Absent, type |-> "category", budget_amount |-> Num(2000),
      spent_amount |-> Num(500), status |-> "at_risk"],
     [provider |-> Absent, type |-> "overall", budget_amount |-> Num(2500),
      spent_amount |-> None, status |-> "on_track"],
     [provider |-> Absent, type |-> "overall", budget_amount |-> Num(-5000),
      spent_amount |-> Num(1000), status |-> "on_track"]}

\* get_mtd_total() results
MtdTotals == {Num(0), Num(120000), Num(5366704)}

\* get_forecast() results: a is current_mtd, b is projected_eom
Forecasts ==
    {[a |-> Num(1200004), b |-> Num(1500000)],
     [a |-> Missing, b |-> Num(250000)],
     [a |-> Num(250000), b |-> None],
     [a |-> None, b |-> Num(100000)]}

\* get_services_breakdown() results: a is total_cost, b is total_services
Breakdowns ==
    {[a |-> Num(5366704), b |-> Num(5)],
     [a |-> Missing, b |-> Missing],
     [a |-> Num(100000), b |-> None],
     [a |-> None, b |-> Num(2)]}

RECURSIVE SeqsUpTo(_, _)
\* the sequences of at most n elements of S
SeqsUpTo(S, n) ==
    IF n = 0 THEN {<<>>}
    ELSE LET shorter == SeqsUpTo(S, n - 1)
         IN  shorter \cup
             {Append(s, x) : s \in {u \in shorter : Len(u) = n - 1}, x \in S}

\* the ways one provider's pass can raise
FailKinds(mock) ==
    {"config_raise", "op_raise"} \cup
    (IF CreateMayRaise(mock) THEN {"create_raise"} ELSE {})

RECURSIVE ListOutcomes(_, _, _, _)
\* what n providers do in a list endpoint, returning at most budget items
\* between them
ListOutcomes(Items, n, budget, mock) ==
    IF n = 0 THEN {<<>>}
    ELSE UNION {{<<o>> \o rest :
                    rest \in ListOutcomes(Items, n - 1, budget - Len(o.value), mock)} :
                o \in {[kind |-> k, value |-> <<>>] : k \in FailKinds(mock)} \cup
                      {[kind |-> "ok", value |-> s] : s \in SeqsUpTo(Items, budget)}}

\* what n providers do in an endpoint whose operation returns one value
ValueOutcomes(Values, n, kinds, none) ==
    [1..n -> {[kind |-> k, value |-> none] : k \in kinds} \cup
             {[kind |-> "ok", value |-> v] : v \in Values}]

NoDict == [a |-> Missing, b |-> Missing]

OutcomesFor(e, n, mock) ==
    CASE e = "anomalies" -> ListOutcomes(AnomalyItems, n, MaxItems, mock)
      [] e = "recommendations" -> ListOutcomes(RecommendationItems, n, MaxItems, mock)
      [] e = "alerts" -> ListOutcomes(AlertItems, n, MaxItems, mock)
      [] e = "budgets" -> ListOutcomes(BudgetItems, n, MaxItems, mock)
      \* BaseCloudProvider.get_mtd_total catches every exception itself
      [] e = "summary" ->
            ValueOutcomes(MtdTotals, n, FailKinds(mock) \ {"op_raise"}, Missing)
      [] e = "forecast" -> ValueOutcomes(Forecasts, n, FailKinds(mock), NoDict)
      [] e = "breakdown" -> ValueOutcomes(Breakdowns, n, FailKinds(mock), NoDict)

----------------------------------------------------------------------------
(* The operations of the adapter classes.  A call returns or raises:         *)
(* [kind, value] with kind "return" or "raise".  A cost line item is         *)
(* [service, cost, error]; costs are in thousandths like all money.          *)

Return(value) == [kind |-> "return", value |-> value]
Raise == [kind |-> "raise", value |-> <<>>]

\* {'service': ..., 'cost': ...}
CostItem(service, cost) == [service |-> service, cost |-> Num(cost), error |-> Absent]
\* {'error': str(e)}
ErrorMarker(msg) == [service |-> Absent, cost |-> Missing, error |-> msg]

\* sorted(results, key=lambda x: x['cost'], reverse=True)
SortedByCost(items) ==
    ItemsOf(SortPairsDesc([k \in 1..Len(items) |->
                            [key |-> items[k].cost, item |-> items[k]]]))

\* float(...) of what the cloud API sent: a number, or a ValueError
ParseFails(row) == row.amount.t # "num"

\* a query that hands back the items parsed before the failure, with the
\* error marker behind them
cloud_get_mtd_costs_partial(answer) ==
    LET bad == {k \in 1..Len(answer.rows) : ParseFails(answer.rows[k])}
        first == CHOOSE k \in bad : \A j \in bad : k <= j
    IN  IF answer.fails # "none" THEN Return(<<ErrorMarker(answer.fails)>>)
        ELSE IF bad # {}
        THEN Return(SortedByCost([k \in 1..(first - 1) |->
                        CostItem(answer.rows[k].service, answer.rows[k].amount.v)])
                    \o <<ErrorMarker("could not convert string to float")>>)
        ELSE Return(SortedByCost([k \in 1..Len(answer.rows) |->
                        CostItem(answer.rows[k].service, answer.rows[k].amount.v)]))

\* AWSProvider.get_mtd_costs and AzureProvider.get_mtd_costs: session (or
\* credential), client, query and the parsing of the rows all run inside one
\* try whose except returns [{'error': str(e)}]
cloud_get_mtd_costs(answer) ==
    IF answer.fails # "none" THEN Return(<<ErrorMarker(answer.fails)>>)
    ELSE IF \E k \in 1..Len(answer.rows) : ParseFails(answer.rows[k])
    THEN Return(<<ErrorMarker("could not convert string to float")>>)
    ELSE Return(SortedByCost([k \in 1..Len(answer.rows) |->
                    CostItem(answer.rows[k].service, answer.rows[k].amount.v)]))

\* the SDK calls get_mtd_costs has made when it returns
SdkCallsOf(answer) ==
    CASE answer.fails = "session" -> 1
      [] answer.fails = "client" -> 2
      [] OTHER -> 3

\* the services literal of MockProvider.get_mtd_costs, costs in cents
services ==
    <<[service |-> "Compute Engine", cost |-> 125045],
      [service |-> "Cloud Storage", cost |-> 45030],
      [service |-> "BigQuery", cost |-> 89075],
      [service |-> "Cloud SQL", cost |-> 67520],
      [service |-> "Kubernetes Engine", cost |-> 210000]>>

\* a jitter of twenty percent either way
JitterWide(cost, r) == RoundDiv(cost * (80 + 4 * r), 100)

\* round(item['cost'] * (0.9 + random.random() * 0.2), 2), in cents; r is
\* random.random() in tenths
Jitter(cost, r) == RoundDiv(cost * (90 + 2 * r), 100)

\* MockProvider.get_mtd_costs; random[k] is the k-th random.random()
MockProvider_get_mtd_costs(random) ==
    Return(SortedByCost([k \in 1..Len(services) |->
                CostItem(services[k].service, 10 * Jitter(services[k].cost, random[k]))]))

\* self.get_mtd_costs() on an object of class cls; env is what the cloud,
\* the random generator or the subclass does
get_mtd_costs(cls, env) ==
    CASE cls \in {"AWSProvider", "AzureProvider"} -> cloud_get_mtd_costs(env)
      [] cls = "MockProvider" -> MockProvider_get_mtd_costs(env)
      [] OTHER -> env

\* a total that lets the failure of get_mtd_costs through
get_mtd_total_unguarded(costs) ==
    IF costs.kind = "raise" THEN Raise
    ELSE Return(SumAmounts([k \in 1..Len(costs.value) |-> costs.value[k].cost]))

\* BaseCloudProvider.get_mtd_total: sum(item.get('cost', 0) for item in
\* costs), and 0.0 on every exception
get_mtd_total(costs) ==
    IF costs.kind = "raise" THEN Return(0)
    ELSE IF \E k \in 1..Len(costs.value) : AddRaises(Get(costs.value[k].cost, Num(0)))
    THEN Return(0)
    ELSE Return(SumAmounts([k \in 1..Len(costs.value) |-> costs.value[k].cost]))

\* a timeseries dict: the keys it has, its timestamps and its values
Series(keys, ts, values) == [keys |-> keys, ts |-> ts, values |-> values]

\* AWSProvider._get_cpu_timeseries: ts and cpu_percent grow together in one
\* loop; every exception gives the dict with both lists empty
_get_cpu_timeseries(answer) ==
    IF answer.fails # "none" \/ \E k \in 1..Len(answer.rows) : ParseFails(answer.rows[k])
    THEN Series({"error", "ts", "cpu_percent"}, <<>>, <<>>)
    ELSE Series({"ts", "cpu_percent"},
                [k \in 1..Len(answer.rows) |-> k],
                [k \in 1..Len(answer.rows) |-> answer.rows[k].amount.v])

AWSProvider_get_timeseries(metric_type, minutes, answer) ==
    IF metric_type = "cpu" THEN _get_cpu_timeseries(answer)
    ELSE Series({"message"}, <<>>, <<>>)

AzureProvider_get_timeseries(metric_type, minutes) ==
    IF metric_type = "cpu" THEN Series({"ts", "cpu_percent", "message"}, <<>>, <<>>)
    ELSE Series({"ts", "values", "message"}, <<>>, <<>>)

Min(a, b) == IF a < b THEN a ELSE b

\* MockProvider.get_timeseries: range(min(minutes, 60)) points
MockProvider_get_timeseries(metric_type, minutes) ==
    LET data_points == Min(minutes, 60)
        ts == [i \in 1..data_points |-> i - data_points]
        values == [i \in 1..data_points |-> IF metric_type = "cpu" THEN 50 ELSE 100]
    IN  CASE metric_type = "cpu" -> Series({"ts", "cpu_percent"}, ts, values)
          [] metric_type = "memory" -> Series({"ts", "memory_percent"}, ts, values)
          [] OTHER -> Series({"ts", "values"}, ts, values)

get_timeseries(cls, metric_type, minutes, answer) ==
    CASE cls = "AWSProvider" -> AWSProvider_get_timeseries(metric_type, minutes, answer)
      [] cls = "AzureProvider" -> AzureProvider_get_timeseries(metric_type, minutes)
      [] OTHER -> MockProvider_get_timeseries(metric_type, minutes)

\* the defaults of BaseCloudProvider, which no class of the sources overrides
get_anomalies(cls) == <<>>
get_recommendations(cls) == <<>>
get_alerts(cls) == <<>>
get_budgets(cls) == <<>>

\* BaseCloudProvider.get_forecast
get_forecast(cls, days, env) ==
    [forecast_data |-> <<>>,
     current_mtd |-> get_mtd_total(get_mtd_costs(cls, env)).value,
     projected_eom |-> 0, daily_average |-> 0, trend |-> "stable", confidence |-> 0]

\* item.get('category', 'Other')
CategoryOf(item) ==
    IF "category" \in DOMAIN item /\ item.category # Absent
    THEN item.category ELSE "Other"

\* the dict of the except branch of get_services_breakdown
ZeroedBreakdown ==
    [breakdown |-> <<>>, total_cost |-> 0, total_services |-> 0,
     category_count |-> 0]

RECURSIVE GroupByCategory(_, _, _)
\* the loop over costs from item k on; categories is the dict, its entries
\* in insertion order
GroupByCategory(items, k, categories) ==
    IF k > Len(items) THEN categories
    ELSE LET item == items[k]
             cat == CategoryOf(item)
             known == \E c \in 1..Len(categories) : categories[c].category = cat
             entered == IF known THEN categories
                        ELSE Append(categories,
                                    [category |-> cat, total_cost |-> 0,
                                     service_count |-> 0, services |-> <<>>])
             c == CHOOSE c \in 1..Len(entered) : entered[c].category = cat
         IN  GroupByCategory(items, k + 1,
                 [entered EXCEPT ![c] =
                     [@ EXCEPT !.total_cost = @ + Amount(item.cost),
                               !.service_count = @ + 1,
                               !.services = Append(@, item)]])

\* the categories as the dict holds them, without the sort
UnsortedCategories(categories) == categories

\* sorted(categories.values(), key=lambda x: x['total_cost'], reverse=True)
SortedCategories(categories) ==
    ItemsOf(SortPairsDesc([c \in 1..Len(categories) |->
                [key |-> Num(categories[c].total_cost), item |-> categories[c]]]))

\* BaseCloudProvider.get_services_breakdown on what self.get_mtd_costs()
\* does; every exception gives the zeroed dict
get_services_breakdown(costs) ==
    IF costs.kind = "raise" THEN ZeroedBreakdown
    ELSE IF \E k \in 1..Len(costs.value) : AddRaises(Get(costs.value[k].cost, Num(0)))
    THEN ZeroedBreakdown
    ELSE LET breakdown == SortedCategories(GroupByCategory(costs.value, 1, <<>>))
         IN  [breakdown |-> breakdown,
              total_cost |-> SumAmounts([c \in 1..Len(breakdown) |->
                                            Num(breakdown[c].total_cost)]),
              total_services |-> SumAmounts([c \in 1..Len(breakdown) |->
                                                Num(breakdown[c].service_count)]),
              category_count |-> Len(breakdown)]

----------------------------------------------------------------------------
(* What surrounds an adapter. *)

\* the rows of a cost query: the last amount does not parse as a float
Rows ==
    {[service |-> "EC2", amount |-> Num(120500)],
     [service |-> "S3", amount |-> Num(340250)],
     [service |-> "RDS", amount |-> Str(<<0>>)]}

\* what the cloud does to one operation: a failing step, or the rows it sends
CloudAnswers ==
    {[fails |-> f, rows |-> <<>>] : f \in {"session", "client", "query"}} \cup
    {[fails |-> "none", rows |-> r] : r \in SeqsUpTo(Rows, 2)}

\* random.random() for each of the five services, in tenths: the two ends of
\* its range
Randoms == [1..Len(services) -> {0, 9}]

\* what the get_mtd_costs of a registered class may do
CustomCosts ==
    {Raise} \cup
    {Return(s) : s \in SeqsUpTo({CostItem("db", 10000), CostItem("vm", 2505),
                                ErrorMarker("quota")}, 2)}

\* cost items that carry a category, as a registered class may return them
CategorizedItems ==
    {[service |-> "db", cost |-> Num(10000), error |-> Absent, category |-> "Database"],
     [service |-> "vm", cost |-> Num(2505), error |-> Absent, category |-> "Compute"],
     [service |-> "disk", cost |-> Num(9000), error |-> Absent, category |-> "Compute"],
     [service |-> "misc", cost |-> Num(2505), error |-> Absent, category |-> Absent],
     [service |-> "free", cost |-> Missing, error |-> Absent, category |-> "Other"]}

CategorizedCosts == {Return(s) : s \in SeqsUpTo(CategorizedItems, MaxItems)}

\* what decides get_mtd_costs on an object of class cls
Surroundings(cls) ==
    CASE cls \in {"AWSProvider", "AzureProvider"} -> CloudAnswers
      [] cls = "MockProvider" -> Randoms
      [] OTHER -> CustomCosts

----------------------------------------------------------------------------
(* The state machine: a request arrives (Init), its handler runs. *)

ListEndpoints == {"anomalies", "recommendations", "alerts", "budgets"}
MapEndpoints == {"forecast", "breakdown"}
Endpoints == ListEndpoints \cup MapEndpoints \cup {"summary"}

\* a request to one of the endpoints E, before its handler has run
Request(E) ==
    /\ endpoint \in E
    /\ use_mock \in BOOLEAN
    /\ days_ok \in IF endpoint = "forecast" THEN BOOLEAN ELSE {TRUE}
    /\ active \in get_active_providers
    /\ outcome \in OutcomesFor(endpoint, Len(active), use_mock)
    /\ pc = "start"
    /\ response = NoResponse
    /\ _providers = InitialProviders
    /\ sdk = AllInstalled
    /\ calls = <<>>
    /\ adapter = NoAdapter
    /\ request = NoHttpRequest
    /\ db = EmptyDb
    /\ now = 0
    /\ history = NoHistory

Respond(e, r) ==
    /\ pc = "start"
    /\ endpoint = e
    /\ response' = r
    /\ pc' = "done"
    /\ UNCHANGED <<endpoint, use_mock, days_ok, active, outcome>>
    /\ UNCHANGED <<_providers, sdk, calls, adapter, request, db, now, history>>

UnifiedCostsSummary == Respond("summary", unified_costs_summary(active, outcome))
AllAnomalies == Respond("anomalies", all_anomalies(active, outcome))
AllForecasts == Respond("forecast", all_forecasts(days_ok, active, outcome))
AllRecommendations == Respond("recommendations", all_recommendations(active, outcome))
AllAlerts == Respond("alerts", all_alerts(active, outcome))
AllBudgets == Respond("budgets", all_budgets(active, outcome))
AllServicesBreakdown == Respond("breakdown", all_services_breakdown(active, outcome))

Init == Request(Endpoints)

Next ==
    \/ UnifiedCostsSummary
    \/ AllAnomalies
    \/ AllForecasts
    \/ AllRecommendations
    \/ AllAlerts
    \/ AllBudgets
    \/ AllServicesBreakdown

Spec == Init /\ [][Next]_vars

\* requests to one family of endpoints only
InitSummary == Request({"summary"})
SpecSummary == InitSummary /\ [][UnifiedCostsSummary]_vars

InitMaps == Request(MapEndpoints)
NextMaps == AllForecasts \/ AllServicesBreakdown
SpecMaps == InitMaps /\ [][NextMaps]_vars

InitLists == Request(ListEndpoints)
NextLists == AllAnomalies \/ AllRecommendations \/ AllAlerts \/ AllBudgets
SpecLists == InitLists /\ [][NextLists]_vars

InitAnomalies == Request({"anomalies"})
SpecAnomalies == InitAnomalies /\ [][AllAnomalies]_vars

InitRecommendations == Request({"recommendations"})
SpecRecommendations == InitRecommendations /\ [][AllRecommendations]_vars

InitAlerts == Request({"alerts"})
SpecAlerts == InitAlerts /\ [][AllAlerts]_vars

InitBudgets == Request({"budgets"})
SpecBudgets == InitBudgets /\ [][AllBudgets]_vars

----------------------------------------------------------------------------
(* The factory on its own: a process calls create and register_provider in   *)
(* any order.  The registry is class-level state and outlives every call.    *)

\* the identifiers create and register_provider are called with
Identifiers == {"AWS", "Azure", "gcp", "mock_aws", "oracle", "Oracle"}

\* the config dicts create is called with
EmptyConfig == [account_id |-> Absent, subscription_id |-> Absent, name |-> Absent]
FullConfig == [account_id |-> "123456789012", subscription_id |-> "sub-1", name |-> "prod"]
Configs == {EmptyConfig, FullConfig}

\* the registrations a process makes
Registrations ==
    {[name |-> "Oracle", provider_class |-> "CustomProvider"],
     [name |-> "oracle", provider_class |-> "MockProvider"],
     [name |-> "AWS", provider_class |-> "CustomProvider"]}

\* what the imports of the adapter modules can have left behind
SdkStates ==
    {AllInstalled, [AllInstalled EXCEPT !.aws = FALSE],
     [AllInstalled EXCEPT !.azure = FALSE], [AllInstalled EXCEPT !.gcp = FALSE]}

\* no request is being served
NoRequest ==
    /\ endpoint = "none"
    /\ days_ok = TRUE
    /\ active = <<>>
    /\ outcome = <<>>
    /\ response = NoResponse
    /\ request = NoHttpRequest
    /\ db = EmptyDb
    /\ now = 0
    /\ history = NoHistory

InitFactory ==
    /\ NoRequest
    /\ use_mock \in BOOLEAN
    /\ sdk \in {AllInstalled, [AllInstalled EXCEPT !.aws = FALSE]}
    /\ _providers = InitialProviders
    /\ calls = <<>>
    /\ adapter = NoAdapter
    /\ pc = "factory"

Create ==
    /\ pc = "factory"
    /\ Len(calls) < MaxCalls
    /\ \E provider \in Identifiers, config \in Configs :
          LET made == create(provider, config, use_mock, _providers, sdk)
          IN  calls' = Append(calls, [op |-> "create", provider |-> provider,
                                      config |-> config, returned |-> made.returned,
                                      config_after |-> made.config,
                                      constructed |-> made.constructed])
    /\ UNCHANGED <<endpoint, use_mock, days_ok, active, outcome, pc, response,
                   _providers, sdk, adapter, request, db, now, history>>

RegisterProvider ==
    /\ pc = "factory"
    /\ Len(calls) < MaxCalls
    /\ \E reg \in Registrations :
          /\ _providers' = register_provider(reg.name, reg.provider_class, _providers)
          /\ calls' = Append(calls, [op |-> "register_provider", name |-> reg.name,
                                     provider_class |-> reg.provider_class])
    /\ UNCHANGED <<endpoint, use_mock, days_ok, active, outcome, pc, response,
                   sdk, adapter, request, db, now, history>>

NextFactory == Create \/ RegisterProvider
SpecFactory == InitFactory /\ [][NextFactory]_vars

----------------------------------------------------------------------------
(* One adapter object: it is constructed, then operations are called on it. *)

Classes == {"AWSProvider", "AzureProvider", "MockProvider", "CustomProvider"}

AdapterConfigs ==
    {EmptyConfig, FullConfig,
     [EmptyConfig EXCEPT !.account_id = "123456789012"],
     [EmptyConfig EXCEPT !.subscription_id = "sub-1"]}

MetricTypes == {"cpu", "memory", "disk"}
Minutes == {-5, 0, 2, 61}

InitAdapters ==
    /\ NoRequest
    /\ use_mock = FALSE
    /\ sdk \in SdkStates
    /\ _providers = InitialProviders
    /\ calls = <<>>
    /\ adapter = NoAdapter
    /\ pc = "new"

\* cls(config)
Construct ==
    /\ pc = "new"
    /\ \E cls \in Classes, config \in AdapterConfigs :
          /\ adapter' = [__init__(cls, config, sdk) EXCEPT
                            !.op = "__init__",
                            !.args = [cls |-> cls, config |-> config]]
          /\ pc' = IF __init__(cls, config, sdk).kind = "instance"
                   THEN "ready" ELSE "failed"
    /\ UNCHANGED <<endpoint, use_mock, days_ok, active, outcome, response,
                   _providers, sdk, calls, request, db, now, history>>

\* the object after one more operation: what was called, with what around
\* it, what it gave, and how many SDK calls it made
Called(op, args, result, sdk_calls) ==
    [adapter EXCEPT !.op = op, !.args = args, !.result = result,
                    !.ops = @ + 1, !.sdk_calls = @ + sdk_calls]

Callable ==
    /\ pc = "ready"
    /\ adapter.ops < MaxOps
    /\ UNCHANGED <<endpoint, use_mock, days_ok, active, outcome, pc, response,
                   _providers, sdk, calls, request, db, now, history>>

\* the SDK calls an operation that queries costs makes on an object of cls
CostQueryCalls(cls, env) ==
    IF cls \in {"AWSProvider", "AzureProvider"} THEN SdkCallsOf(env) ELSE 0

GetMtdCosts ==
    /\ Callable
    /\ \E env \in Surroundings(adapter.cls) :
          adapter' = Called("get_mtd_costs", [env |-> env],
                            get_mtd_costs(adapter.cls, env),
                            CostQueryCalls(adapter.cls, env))

GetMtdTotal ==
    /\ Callable
    /\ \E env \in Surroundings(adapter.cls) :
          adapter' = Called("get_mtd_total",
                            [costs |-> get_mtd_costs(adapter.cls, env)],
                            get_mtd_total(get_mtd_costs(adapter.cls, env)),
                            CostQueryCalls(adapter.cls, env))

GetTimeseries ==
    /\ Callable
    /\ adapter.cls # "CustomProvider"
    /\ \E metric_type \in MetricTypes, minutes \in Minutes :
          \E answer \in IF adapter.cls = "AWSProvider" /\ metric_type = "cpu"
                         THEN CloudAnswers
                         ELSE {[fails |-> "none", rows |-> <<>>]} :
              adapter' = Called("get_timeseries",
                                [metric_type |-> metric_type, minutes |-> minutes],
                                get_timeseries(adapter.cls, metric_type, minutes, answer),
                                IF adapter.cls = "AWSProvider" /\ metric_type = "cpu"
                                THEN SdkCallsOf(answer) ELSE 0)

GetAnomalies ==
    /\ Callable
    /\ adapter' = Called("get_anomalies", <<>>, get_anomalies(adapter.cls), 0)

GetRecommendations ==
    /\ Callable
    /\ adapter' = Called("get_recommendations", <<>>,
                         get_recommendations(adapter.cls), 0)

GetAlerts ==
    /\ Callable
    /\ adapter' = Called("get_alerts", <<>>, get_alerts(adapter.cls), 0)

GetBudgets ==
    /\ Callable
    /\ adapter' = Called("get_budgets", <<>>, get_budgets(adapter.cls), 0)

GetForecast ==
    /\ Callable
    /\ \E env \in Surroundings(adapter.cls) :
          adapter' = Called("get_forecast", [days |-> 7],
                            get_forecast(adapter.cls, 7, env),
                            CostQueryCalls(adapter.cls, env))

\* get_services_breakdown(): a registered class may also return items that
\* carry a category
GetServicesBreakdown ==
    /\ Callable
    /\ \E env \in IF adapter.cls = "CustomProvider"
                  THEN CustomCosts \cup CategorizedCosts
                  ELSE Surroundings(adapter.cls) :
          adapter' = Called("get_services_breakdown",
                            [costs |-> get_mtd_costs(adapter.cls, env)],
                            get_services_breakdown(get_mtd_costs(adapter.cls, env)),
                            CostQueryCalls(adapter.cls, env))

NextAdapters ==
    \/ Construct
    \/ GetMtdCosts
    \/ GetMtdTotal
    \/ GetTimeseries
    \/ GetAnomalies
    \/ GetRecommendations
    \/ GetAlerts
    \/ GetBudgets
    \/ GetForecast
    \/ GetServicesBreakdown

SpecAdapters == InitAdapters /\ [][NextAdapters]_vars

----------------------------------------------------------------------------
(* The protected routes of provider_routes.py: the decorators, the          *)
(* single-provider handlers and get_providers.  pc is "received" when the   *)
(* request reaches the outermost wrapper, "authenticated" when auth_required *)
(* calls the wrapper of role_required, "start" when the handler is called,  *)
(* "done" when a response is returned.                                      *)

\* a row of the users table
UserRow(username, role, password_hash) ==
    [username |-> username, role |-> role, password_hash |-> password_hash,
     email |-> Absent]

\* User.query.filter_by(username=username).first(): the rows found
UsersNamed(database, username) == {u \in database.users : u.username = username}

\* jwt.decode accepts every token, whatever its signature and expiry
verify_token_unverified(token) == [decoded |-> TRUE, sub |-> token.sub]

\* verify_token: the payload, or None on every PyJWTError
verify_token(token) ==
    IF token.kind = "signed" THEN [decoded |-> TRUE, sub |-> token.sub]
    ELSE [decoded |-> FALSE, sub |-> Absent]

Unauthorized == [status |-> 401, body |-> [error |-> "Unauthorized"]]
Forbidden == [status |-> 403, body |-> [error |-> "Forbidden"]]

\* the wrapper of auth_required: the response it returns itself, or
\* NoResponse when it sets request.user and calls fn
auth_required(authorization, database) ==
    IF authorization.scheme # "Bearer " THEN Unauthorized
    ELSE LET payload == verify_token(authorization.token)
         IN  IF ~payload.decoded THEN Unauthorized
             ELSE IF payload.sub \in {Absent, ""} THEN Unauthorized
             ELSE IF UsersNamed(database, payload.sub) = {} THEN Unauthorized
             ELSE NoResponse

\* request.user as auth_required sets it
RequestUser(authorization, database) ==
    CHOOSE u \in UsersNamed(database, verify_token(authorization.token).sub) : TRUE

\* the wrapper of role_required(*roles), called by auth_required
role_required(roles, user) ==
    IF user.role \notin roles THEN Forbidden ELSE NoResponse

\* @role_required("admin", "viewer") on get_providers
GetProvidersRoles == {"admin", "viewer"}

SingleEndpoints ==
    {"<provider>/costs/mtd", "<provider>/costs/daily", "<provider>/metrics/live",
     "<provider>/metrics/timeseries", "<provider>/anomalies", "<provider>/forecast",
     "<provider>/recommendations", "<provider>/alerts", "<provider>/budgets",
     "<provider>/services/breakdown"}

\* the handlers that start with int(request.args.get(...))
ParsesInt(e) ==
    e \in {"<provider>/costs/daily", "<provider>/metrics/timeseries",
           "<provider>/forecast"}

\* f"{provider} not configured"
NotConfiguredMessage(provider) ==
    CASE provider = "aws" -> "aws not configured"
      [] provider = "azure" -> "azure not configured"
      [] OTHER -> "oracle not configured"

NotConfigured(provider) ==
    [status |-> 404, body |-> [error |-> NotConfiguredMessage(provider)]]

\* a single-provider handler: its response, and the create call it made.
\* parsed: the int() of the query parameter returns; o: what
\* is_provider_configured, get_config and the adapter's operation do
single_provider(e, provider, parsed, o, mock, registry, installed) ==
    IF ParsesInt(e) /\ ~parsed
    THEN [response |-> Error500("invalid literal for int() with base 10"),
          calls |-> <<>>]
    ELSE IF ~o.configured
    THEN [response |-> NotConfigured(provider), calls |-> <<>>]
    ELSE IF o.config_raises
    THEN [response |-> Error500("config lookup failed"), calls |-> <<>>]
    ELSE LET made == create(provider, o.config, mock, registry, installed)
             call == [op |-> "create", provider |-> provider, config |-> o.config,
                      returned |-> made.returned, config_after |-> made.config,
                      constructed |-> made.constructed]
         IN  IF made.returned.kind = "raise"
             THEN [response |-> Error500(made.returned.error.message),
                   calls |-> <<call>>]
             ELSE IF o.op = "raise"
             THEN [response |-> Error500("operation failed"), calls |-> <<call>>]
             ELSE [response |-> Ok200(o.op), calls |-> <<call>>]

\* the Authorization headers of the requests
BearerTokens ==
    {[kind |-> "garbage", sub |-> Absent],
     [kind |-> "expired", sub |-> "alice"]} \cup
    {[kind |-> "signed", sub |-> s] : s \in {Absent, "", "alice", "bob", "carol", "ghost"}}

Authorizations ==
    {[scheme |-> "", token |-> [kind |-> "garbage", sub |-> Absent]],
     [scheme |-> "Basic ", token |-> [kind |-> "signed", sub |-> "alice"]]} \cup
    {[scheme |-> "Bearer ", token |-> tk] : tk \in BearerTokens}

\* the users of a deployment; a role other than admin and viewer can only
\* have been written past the register route
RouteDb ==
    [users |-> {UserRow("alice", "admin", 1), UserRow("bob", "viewer", 1),
                UserRow("carol", "editor", 1)},
     tokens |-> {}]

RequestedProviders == {"aws", "azure", "oracle"}

\* what the collaborators of a single-provider handler do
SingleOutcomes ==
    [configured : BOOLEAN, config_raises : BOOLEAN,
     config : {EmptyConfig, FullConfig}, op : {"raise", "data"}]

InitRoutes ==
    /\ endpoint \in SingleEndpoints \cup {"providers"} \cup Endpoints
    /\ use_mock \in BOOLEAN
    /\ days_ok \in IF ParsesInt(endpoint) \/ endpoint = "forecast"
                   THEN BOOLEAN ELSE {TRUE}
    /\ active \in IF endpoint \in SingleEndpoints THEN {<<>>}
                  ELSE {<<>>, <<"aws">>}
    /\ outcome \in IF endpoint \in SingleEndpoints THEN SingleOutcomes
                   ELSE IF endpoint = "providers" THEN {<<>>}
                   ELSE OutcomesFor(endpoint, Len(active), use_mock)
    /\ request \in [authorization : Authorizations,
                    provider : IF endpoint \in SingleEndpoints
                               THEN RequestedProviders ELSE {Absent}]
    /\ db = RouteDb
    /\ now = 0
    /\ history = NoHistory
    /\ sdk \in {AllInstalled, [AllInstalled EXCEPT !.aws = FALSE]}
    /\ _providers = InitialProviders
    /\ calls = <<>>
    /\ adapter = NoAdapter
    /\ response = NoResponse
    /\ pc = "received"

\* the routes decorated with role_required
RoleRoutes == {"providers"}

AuthRequired ==
    /\ pc = "received"
    /\ LET r == auth_required(request.authorization, db)
       IN  IF r # NoResponse
           THEN response' = r /\ pc' = "done"
           ELSE /\ response' = response
                /\ pc' = IF endpoint \in RoleRoutes THEN "authenticated" ELSE "start"
    /\ UNCHANGED <<endpoint, use_mock, days_ok, active, outcome, _providers, sdk,
                   calls, adapter, request, db, now, history>>

RoleRequired ==
    /\ pc = "authenticated"
    /\ LET r == role_required(GetProvidersRoles,
                              RequestUser(request.authorization, db))
       IN  IF r # NoResponse
           THEN response' = r /\ pc' = "done"
           ELSE response' = response /\ pc' = "start"
    /\ UNCHANGED <<endpoint, use_mock, days_ok, active, outcome, _providers, sdk,
                   calls, adapter, request, db, now, history>>

\* jsonify(auth_manager.get_active_providers())
GetProviders ==
    /\ pc = "start"
    /\ endpoint = "providers"
    /\ response' = Ok200(active)
    /\ pc' = "done"
    /\ UNCHANGED <<endpoint, use_mock, days_ok, active, outcome, _providers, sdk,
                   calls, adapter, request, db, now, history>>

\* the handler of the single-provider route e
Handle(e) ==
    /\ pc = "start"
    /\ endpoint = e
    /\ LET h == single_provider(e, request.provider, days_ok, outcome, use_mock,
                                _providers, sdk)
       IN  /\ response' = h.response
           /\ calls' = h.calls
           /\ adapter' = IF h.calls = <<>> THEN adapter ELSE h.calls[1].returned
    /\ pc' = "done"
    /\ UNCHANGED <<endpoint, use_mock, days_ok, active, outcome, _providers, sdk,
                   request, db, now, history>>

ProviderMtdCosts == Handle("<provider>/costs/mtd")
ProviderDailyCosts == Handle("<provider>/costs/daily")
ProviderLiveMetrics == Handle("<provider>/metrics/live")
ProviderTimeseries == Handle("<provider>/metrics/timeseries")
ProviderAnomalies == Handle("<provider>/anomalies")
ProviderForecast == Handle("<provider>/forecast")
ProviderRecommendations == Handle("<provider>/recommendations")
ProviderAlerts == Handle("<provider>/alerts")
ProviderBudgets == Handle("<provider>/budgets")
ProviderServicesBreakdown == Handle("<provider>/services/breakdown")

NextRoutes ==
    \/ AuthRequired
    \/ RoleRequired
    \/ GetProviders
    \/ ProviderMtdCosts
    \/ ProviderDailyCosts
    \/ ProviderLiveMetrics
    \/ ProviderTimeseries
    \/ ProviderAnomalies
    \/ ProviderForecast
    \/ ProviderRecommendations
    \/ ProviderAlerts
    \/ ProviderBudgets
    \/ ProviderServicesBreakdown
    \/ Next

SpecRoutes == InitRoutes /\ [][NextRoutes]_vars

----------------------------------------------------------------------------
(* GET /costs/summary over the adapter classes of the sources: the value of *)
(* each pass is computed by the factory and by get_mtd_total of the class   *)
(* the factory constructs.                                                  *)

\* a pass that takes the error marker of the cost query for a failure
MtdPassMarkerRaises(provider, o, mock, registry, installed) ==
    LET made == create(provider, o.config, mock, registry, installed).returned
    IN  IF o.config_raises THEN [kind |-> "config_raise", value |-> Missing]
        ELSE IF made.kind = "raise" THEN [kind |-> "create_raise", value |-> Missing]
        ELSE IF \E k \in 1..Len(get_mtd_costs(made.cls, o.env).value) :
                    get_mtd_costs(made.cls, o.env).value[k].error # Absent
        THEN [kind |-> "op_raise", value |-> Missing]
        ELSE [kind |-> "ok",
              value |-> Num(get_mtd_total(get_mtd_costs(made.cls, o.env)).value)]

\* one provider's pass of unified_costs_summary:
\*     cloud = CloudProviderFactory.create(provider, auth_manager.get_config(provider))
\*     mtd = cloud.get_mtd_total()
MtdPass(provider, o, mock, registry, installed) ==
    LET made == create(provider, o.config, mock, registry, installed).returned
    IN  IF o.config_raises THEN [kind |-> "config_raise", value |-> Missing]
        ELSE IF made.kind = "raise" THEN [kind |-> "create_raise", value |-> Missing]
        ELSE IF get_mtd_total(get_mtd_costs(made.cls, o.env)).kind = "raise"
        THEN [kind |-> "op_raise", value |-> Missing]
        ELSE [kind |-> "ok",
              value |-> Num(get_mtd_total(get_mtd_costs(made.cls, o.env)).value)]

\* random.random() staying at one end of its range for all five services
EvenRandoms == {[k \in 1..Len(services) |-> r] : r \in {0, 9}}

\* what get_config and the cost query do for one provider
SummaryOutcomes(mock) ==
    [config_raises : BOOLEAN, config : {EmptyConfig, FullConfig},
     env : IF mock THEN EvenRandoms ELSE CloudAnswers]

InitSummaryAdapters ==
    /\ endpoint = "summary"
    /\ use_mock \in BOOLEAN
    /\ days_ok = TRUE
    /\ active \in get_active_providers
    /\ outcome \in [1..Len(active) -> SummaryOutcomes(use_mock)]
    /\ sdk \in {AllInstalled, [AllInstalled EXCEPT !.aws = FALSE]}
    /\ _providers = InitialProviders
    /\ calls = <<>>
    /\ adapter = NoAdapter
    /\ request = NoHttpRequest
    /\ db = EmptyDb
    /\ now = 0
    /\ history = NoHistory
    /\ response = NoResponse
    /\ pc = "start"

\* unified_costs_summary with the adapters of the sources behind it
SummaryOverAdapters ==
    /\ pc = "start"
    /\ response' = unified_costs_summary(active,
                        [i \in 1..Len(active) |->
                            MtdPass(active[i], outcome[i], use_mock, _providers, sdk)])
    /\ pc' = "done"
    /\ UNCHANGED <<endpoint, use_mock, days_ok, active, outcome, _providers, sdk,
                   calls, adapter, request, db, now, history>>

SpecSummaryAdapters == InitSummaryAdapters /\ [][SummaryOverAdapters]_vars

----------------------------------------------------------------------------
(* The account routes of auth_routes.py: register, forgot and reset work on *)
(* the users and password_reset_tokens tables.  Each handler runs in one    *)
(* database session and commits once.  A reset token is a number: 0 is the  *)
(* empty string, the k-th token issued is k.  Time is counted in ticks.     *)

\* a JSON value that is not a string
NonString == "<number>"

\* s.strip()
strip(s) ==
    CASE s = " Admin " -> "Admin"
      [] s = "   " -> ""
      [] OTHER -> s

\* (body.get(key) or "").strip()
Field(val) == IF val = Absent THEN "" ELSE strip(val)

\* a role that is stored as it was requested, admin or viewer
AssignedRoleAsRequested(role, has_admin) ==
    LET requested == lower(strip(IF role \in {Absent, ""} THEN "viewer" ELSE role))
    IN  IF requested \notin {"admin", "viewer"} THEN "viewer" ELSE requested

\* requested_role of register: (body.get("role") or "viewer").strip().lower(),
\* viewer unless it is admin or viewer, viewer when an admin exists
AssignedRole(role, has_admin) ==
    LET requested == lower(strip(IF role \in {Absent, ""} THEN "viewer" ELSE role))
        known == IF requested \notin {"admin", "viewer"} THEN "viewer" ELSE requested
    IN  IF known = "admin" /\ has_admin THEN "viewer" ELSE known

\* generate_password_hash(password): salted, so that no two calls agree
generate_password_hash(password, salt) == [password |-> password, salt |-> salt]

Json(status, body) == [status |-> status, body |-> body]
JsonError(status, msg) == [status |-> status, body |-> [error |-> msg]]

\* register: the response, the database it leaves and the hashes it made
register(body, database, hashed) ==
    LET username == Field(body.username)
        password == Field(body.password)
        email == Field(body.email)
        has_admin == \E u \in database.users : u.role = "admin"
        requested_role == AssignedRole(body.role, has_admin)
        user == [UserRow(username, requested_role,
                         generate_password_hash(password, hashed + 1))
                 EXCEPT !.email = IF email = "" THEN Absent ELSE email]
    IN  IF body.role = NonString
        THEN [response |-> JsonError(500, "Registration failed. Please try again."),
              db |-> database, hashed |-> hashed]
        ELSE IF username = "" \/ password = ""
        THEN [response |-> JsonError(400, "Username and password are required."),
              db |-> database, hashed |-> hashed]
        ELSE IF UsersNamed(database, username) # {}
        THEN [response |-> JsonError(409, "Username already exists."),
              db |-> database, hashed |-> hashed]
        ELSE IF email # "" /\ \E u \in database.users : u.email = email
        THEN [response |-> JsonError(409, "Email already in use."),
              db |-> database, hashed |-> hashed]
        ELSE [response |-> Json(201, [ok |-> TRUE, username |-> username,
                                      role |-> requested_role]),
              db |-> [database EXCEPT !.users = @ \cup {user}],
              hashed |-> hashed + 1]

\* minutes_valid=30, in ticks
MinutesValid == 2

\* expires_at of a row written before the column was there
NoExpiry == -1

\* PasswordResetToken.issue_for: token is what secrets.token_urlsafe(48) gives
issue_for(username, minutes_valid, token, now_utc) ==
    [username |-> username, token |-> token, expires_at |-> now_utc + minutes_valid]

\* a clean-up that leaves the earlier tokens of the user in the table
KeepTokensOf(tokens, username) == tokens

\* PasswordResetToken.query.filter_by(username=user.username).delete()
DeleteTokensOf(tokens, username) == {tk \in tokens : tk.username # username}

\* forgot_password: the response, the database it leaves and the token issued
forgot_password(body, database, token, now_utc) ==
    LET username == Field(body.username)
        email == Field(body.email)
        user == IF username # "" THEN UsersNamed(database, username)
                ELSE IF email # "" THEN {u \in database.users : u.email = email}
                ELSE {}
    IN  IF user = {}
        THEN [response |-> Json(200, [ok |-> TRUE, reset_token |-> 0]),
              db |-> database, issued |-> <<>>]
        ELSE LET name == (CHOOSE u \in user : TRUE).username
                 token_rec == issue_for(name, MinutesValid, token, now_utc)
             IN  [response |-> Json(200, [ok |-> TRUE, reset_token |-> token]),
                  db |-> [database EXCEPT
                             !.tokens = DeleteTokensOf(@, name) \cup {token_rec}],
                  issued |-> <<[username |-> name, token |-> token]>>]

\* a token that is still good at the instant it expires
is_expired_after(exp, now_utc) ==
    IF exp = NoExpiry THEN TRUE ELSE now_utc > exp

\* PasswordResetToken.is_expired
is_expired(exp, now_utc) ==
    IF exp = NoExpiry THEN TRUE ELSE now_utc >= exp

\* a reset that leaves the token it has used in the table
KeepToken(tokens, prt) == tokens

\* db.session.delete(prt)
DeleteToken(tokens, prt) == tokens \ {prt}

\* reset_password: the response, the database it leaves, the token it
\* accepted and the hashes it made
reset_password(body, database, hashed, now_utc) ==
    LET token == body.token
        new_password == Field(body.new_password)
        found == {tk \in database.tokens : tk.token = token}
        prt == CHOOSE tk \in found : TRUE
        user == UsersNamed(database, prt.username)
        row == CHOOSE u \in user : TRUE
    IN  IF token = 0 \/ new_password = ""
        THEN [response |-> JsonError(400, "Token and new password are required."),
              db |-> database, used |-> {}, hashed |-> hashed]
        ELSE IF found = {}
        THEN [response |-> JsonError(400, "Invalid or expired token."),
              db |-> database, used |-> {}, hashed |-> hashed]
        ELSE IF is_expired(prt.expires_at, now_utc)
        THEN [response |-> JsonError(400, "Invalid or expired token."),
              db |-> [database EXCEPT !.tokens = DeleteToken(@, prt)],
              used |-> {}, hashed |-> hashed]
        ELSE IF user = {}
        THEN [response |-> JsonError(404, "User not found."),
              db |-> [database EXCEPT !.tokens = DeleteToken(@, prt)],
              used |-> {}, hashed |-> hashed]
        ELSE [response |-> Json(200, [ok |-> TRUE]),
              db |-> [users |-> (database.users \ {row}) \cup
                            {[row EXCEPT !.password_hash =
                                generate_password_hash(new_password, hashed + 1)]},
                      tokens |-> DeleteToken(database.tokens, prt)],
              used |-> {token}, hashed |-> hashed + 1]

\* the request bodies
RegisterBodies ==
    [username : {"", "alice", "bob"}, password : {"", "pw"},
     email : {Absent, "a@x"}, role : {Absent, "admin", " Admin ", "root", NonString}]

ForgotBodies == [username : {"", "alice", "bob"}, email : {"", "a@x"}]

NewPasswords == {"   ", "new"}

\* the databases a deployment starts from: no admin, and at most a viewer
\* with a token of before the expires_at column
InitialDbs ==
    {[db |-> EmptyDb, history |-> NoHistory],
     [db |-> [users |-> {UserRow("bob", "viewer", generate_password_hash("pw", 1))},
              tokens |-> {}],
      history |-> [NoHistory EXCEPT !.hashed = 1]],
     [db |-> [users |-> {UserRow("bob", "viewer", generate_password_hash("pw", 1))},
              tokens |-> {[username |-> "bob", token |-> 1, expires_at |-> NoExpiry]}],
      history |-> [issued |-> <<[username |-> "bob", token |-> 1]>>,
                   used |-> {}, hashed |-> 1]]}

InitAccounts ==
    /\ endpoint = "none"
    /\ days_ok = TRUE
    /\ active = <<>>
    /\ outcome = <<>>
    /\ response = NoResponse
    /\ request = NoHttpRequest
    /\ use_mock = FALSE
    /\ sdk = AllInstalled
    /\ _providers = InitialProviders
    /\ calls = <<>>
    /\ adapter = NoAdapter
    /\ now = 0
    /\ \E start \in InitialDbs : db = start.db /\ history = start.history
    /\ pc = "accounts"

\* the number of requests the account routes have served
Served == IF request = NoHttpRequest THEN 0 ELSE request.served

AccountRoute ==
    /\ pc = "accounts"
    /\ Served < MaxRequests
    /\ UNCHANGED <<endpoint, use_mock, days_ok, active, outcome, pc, _providers,
                   sdk, calls, adapter, now>>

Register ==
    /\ AccountRoute
    /\ \E body \in RegisterBodies :
          LET r == register(body, db, history.hashed)
          IN  /\ request' = [route |-> "register", body |-> body, at |-> now,
                             before |-> db, history |-> history,
                             served |-> Served + 1]
              /\ response' = r.response
              /\ db' = r.db
              /\ history' = [history EXCEPT !.hashed = r.hashed]

ForgotPassword ==
    /\ AccountRoute
    /\ \E body \in ForgotBodies :
          LET r == forgot_password(body, db, Len(history.issued) + 1, now)
          IN  /\ request' = [route |-> "forgot", body |-> body, at |-> now,
                             before |-> db, history |-> history,
                             served |-> Served + 1]
              /\ response' = r.response
              /\ db' = r.db
              /\ history' = [history EXCEPT !.issued = @ \o r.issued]

ResetPassword ==
    /\ AccountRoute
    /\ \E token \in 0..(Len(history.issued) + 1), new_password \in NewPasswords :
          LET body == [token |-> token, new_password |-> new_password]
              r == reset_password(body, db, history.hashed, now)
          IN  /\ request' = [route |-> "reset", body |-> body, at |-> now,
                             before |-> db, history |-> history,
                             served |-> Served + 1]
              /\ response' = r.response
              /\ db' = r.db
              /\ history' = [history EXCEPT !.used = @ \cup r.used,
                                            !.hashed = r.hashed]

\* time passes
Tick ==
    /\ pc = "accounts"
    /\ now < MaxTime
    /\ now' = now + 1
    /\ UNCHANGED <<endpoint, use_mock, days_ok, active, outcome, pc, response,
                   _providers, sdk, calls, adapter, request, db, history>>

NextAccounts == Register \/ ForgotPassword \/ ResetPassword \/ Tick

SpecAccounts == InitAccounts /\ [][NextAccounts]_vars

----------------------------------------------------------------------------
(* Vocabulary of the properties. *)

Done(e) == pc = "done" /\ endpoint = e

ActiveIndex == 1..Len(active)

\* the i-th active provider's config lookup, adapter construction or
\* operation raised
Failing(i) == ProviderRaises(outcome[i])

\* the list a list endpoint returns
ReturnedList ==
    CASE endpoint = "anomalies" -> response.body
      [] endpoint = "recommendations" -> response.body.recommendations
      [] endpoint = "alerts" -> response.body.alerts
      [] endpoint = "budgets" -> response.body.budgets

Occurrences(seq, x) == Cardinality({k \in 1..Len(seq) : seq[k] = x})

\* what the i-th provider's adapter returned, each item carrying that
\* provider's name
Contribution(i) ==
    [k \in 1..Len(outcome[i].value) |->
        [outcome[i].value[k] EXCEPT !.provider = active[i]]]

RECURSIVE Concatenation(_, _)
\* the contributions of those of the first n providers that are in the set
\* Keep of indices, one after the other
Concatenation(Keep, n) ==
    IF n = 0 THEN <<>>
    ELSE Concatenation(Keep, n - 1) \o (IF n \in Keep THEN Contribution(n) ELSE <<>>)

IsPermutation(s, u) ==
    /\ Len(s) = Len(u)
    /\ \A k \in 1..Len(s) : Occurrences(s, s[k]) = Occurrences(u, s[k])

\* the handler's per-item loop over the i-th provider's items raised: an
\* amount it adds to a running total is present and not a number
LoopRaises(i) ==
    /\ ~Failing(i)
    /\ \/ /\ endpoint = "recommendations"
          /\ \E k \in 1..Len(outcome[i].value) :
                outcome[i].value[k].potential_savings_monthly.t = "none"
       \/ /\ endpoint = "budgets"
          /\ \E k \in 1..Len(outcome[i].value) :
                /\ outcome[i].value[k].type = "overall"
                /\ \/ outcome[i].value[k].budget_amount.t = "none"
                   \/ outcome[i].value[k].spent_amount.t = "none"
       \/ /\ endpoint \in MapEndpoints
          /\ \/ outcome[i].value.a.t = "none"
             \/ outcome[i].value.b.t = "none"

----------------------------------------------------------------------------
(* C1: in the list endpoints the returned list holds every item of every    *)
(* provider whose config lookup, construction and operation did not raise,  *)
(* no item tagged with the name of a provider where one of them raised, and *)
(* nothing else (no error entry).                                           *)
C1_ListHoldsNonFailingOnly ==
    (pc = "done" /\ endpoint \in ListEndpoints) =>
        /\ response.status = 200
        /\ \A i \in ActiveIndex :
              ~Failing(i) =>
                  \A k \in 1..Len(Contribution(i)) :
                      Occurrences(ReturnedList, Contribution(i)[k]) >= 1
        /\ \A i \in ActiveIndex :
              Failing(i) =>
                  \A k \in 1..Len(ReturnedList) : ReturnedList[k].provider # active[i]
        /\ Len(ReturnedList) =
              Len(Concatenation({i \in ActiveIndex : ~Failing(i)}, Len(active)))

----------------------------------------------------------------------------
(* C2: in all_forecasts and all_services_breakdown the providers map has one *)
(* key per active provider; the key of a provider whose pass raised holds an *)
(* error entry (the exception message, no data field), every other key that  *)
(* provider's own result.                                                    *)

MapKeysAreActive == DOMAIN response.body.providers = {active[i] : i \in ActiveIndex}

IsErrorEntry(e) == e.error # Absent /\ e.a = Missing /\ e.b = Missing
IsResultOf(e, i) ==
    e.error = Absent /\ e.a = outcome[i].value.a /\ e.b = outcome[i].value.b

\* as claimed: a pass raises only in the config lookup, the construction or
\* the operation
C2_ErrorEntryIffOperationFailed ==
    (pc = "done" /\ endpoint \in MapEndpoints /\ days_ok) =>
        /\ response.status = 200
        /\ MapKeysAreActive
        /\ \A i \in ActiveIndex :
              LET e == response.body.providers[active[i]]
              IN  IF Failing(i) THEN IsErrorEntry(e) /\ e.error = ErrorMessage(outcome[i])
                  ELSE IsResultOf(e, i)

\* as amended: the pass also raises, and is recorded as an error entry, when
\* one of the two fields the handler adds up is present and not a number
C2_ErrorEntryIffPassRaised ==
    (pc = "done" /\ endpoint \in MapEndpoints /\ days_ok) =>
        /\ response.status = 200
        /\ MapKeysAreActive
        /\ \A i \in ActiveIndex :
              LET e == response.body.providers[active[i]]
              IN  IF Failing(i) THEN IsErrorEntry(e) /\ e.error = ErrorMessage(outcome[i])
                  ELSE IF LoopRaises(i) THEN IsErrorEntry(e)
                  ELSE IsResultOf(e, i)

\* a failing provider listed before one whose result is reported
C2_Witness ==
    /\ pc = "done"
    /\ endpoint = "forecast"
    /\ response.status = 200
    /\ Len(active) = 2
    /\ Failing(1)
    /\ IsErrorEntry(response.body.providers[active[1]])
    /\ ~Failing(2) /\ ~LoopRaises(2)
    /\ response.body.providers[active[2]].a = Num(1200004)

----------------------------------------------------------------------------
(* C3: unified_costs_summary returns one entry per active provider, in the   *)
(* order of the active list; a provider whose pass raised yields             *)
(* {provider, error, status "error"}, every other {provider, mtd_cost,       *)
(* status "active"}; providers after a failing one are still reported.       *)

SummaryInOrder ==
    /\ response.status = 200
    /\ Len(response.body) = Len(active)
    /\ \A i \in ActiveIndex : response.body[i].provider = active[i]

IsErrorSummary(e) == e.status = "error" /\ e.error # Absent /\ e.mtd_cost = Missing
IsActiveSummary(e, i) ==
    e.status = "active" /\ e.error = Absent /\ e.mtd_cost = outcome[i].value

\* as claimed: only a raising adapter construction yields an error entry
C3_ErrorOnlyWhenConstructionRaises ==
    Done("summary") =>
        /\ SummaryInOrder
        /\ \A i \in ActiveIndex :
              IF outcome[i].kind = "create_raise" THEN IsErrorSummary(response.body[i])
              ELSE IsActiveSummary(response.body[i], i)

\* as amended: a raising config lookup yields an error entry too
C3_ErrorWhenLookupOrConstructionRaises ==
    Done("summary") =>
        /\ SummaryInOrder
        /\ \A i \in ActiveIndex :
              IF outcome[i].kind \in {"config_raise", "create_raise"}
              THEN IsErrorSummary(response.body[i])
              ELSE IsActiveSummary(response.body[i], i)

\* the first provider's construction raised and the second is reported active
C3_Witness ==
    /\ Done("summary")
    /\ Len(active) = 2
    /\ outcome[1].kind = "create_raise"
    /\ response.body[1].status = "error"
    /\ response.body[2].status = "active"
    /\ response.body[2].mtd_cost = Num(120000)

----------------------------------------------------------------------------
(* C4: once get_active_providers has returned, no per-provider failure and   *)
(* no value a provider returns makes an all-providers handler answer 500.    *)
C4_AggregateNeverFails ==
    (pc = "done" /\ days_ok) => response.status = 200

----------------------------------------------------------------------------
(* C5: every item of the list a list endpoint returns carries, as provider,  *)
(* the name of the active provider whose adapter returned it, whatever       *)
(* provider value the adapter had put on it, in mock mode or not.            *)

\* the items of the returned list that carry the name p
TaggedWith(p) == SelectSeq(ReturnedList, LAMBDA x : x.provider = p)

C5_ItemsCarryTheirProvider ==
    (pc = "done" /\ endpoint \in ListEndpoints /\ response.status = 200) =>
        /\ \A k \in 1..Len(ReturnedList) :
              ReturnedList[k].provider \in {active[i] : i \in ActiveIndex}
        /\ \A i \in ActiveIndex :
              \/ TaggedWith(active[i]) = <<>>
              \/ IsPermutation(TaggedWith(active[i]), Contribution(i))

\* in mock mode, aws returns an item the adapter had marked "azure" while
\* azure contributes items of its own
C5_Witness ==
    /\ pc = "done"
    /\ endpoint = "budgets"
    /\ use_mock
    /\ active = <<"aws", "azure">>
    /\ ~Failing(1) /\ ~Failing(2)
    /\ \E k \in 1..Len(outcome[1].value) : outcome[1].value[k].provider = "azure"
    /\ TaggedWith("aws") # <<>>
    /\ TaggedWith("azure") # <<>>

----------------------------------------------------------------------------
(* Vocabulary of the totals. *)

\* the returned budgets whose type is "overall"
OverallBudgets == SelectSeq(ReturnedList, LAMBDA x : x.type = "overall")

Abs(n) == IF n < 0 THEN 0 - n ELSE n

\* u is the quotient n / d rounded to an integer (a tie goes to the even one)
IsRounded(u, n, d) ==
    /\ 2 * Abs(u * d - n) <= Abs(d)
    /\ 2 * Abs(u * d - n) = Abs(d) => u % 2 = 0

\* the keys of a sorted list never increase
Descending(keys) ==
    \A k \in 1..(Len(keys) - 1) : ~KeyLess(keys[k], keys[k + 1])

\* the providers that contribute to a list: no raise in the pass
NonFailing == {i \in ActiveIndex : ~Failing(i)}

----------------------------------------------------------------------------
(* C6: all_budgets: total_budget and total_spent are the sums of             *)
(* budget_amount and spent_amount over the contributed budgets of type       *)
(* "overall" and over no other budget; total_remaining is their difference;  *)
(* at_risk_count counts the contributed budgets with status "at_risk",       *)
(* whatever their type.                                                      *)
C6_TotalsOverContributedOverall ==
    Done("budgets") =>
        LET tb == SumAmounts([k \in 1..Len(OverallBudgets) |->
                                OverallBudgets[k].budget_amount])
            ts == SumAmounts([k \in 1..Len(OverallBudgets) |->
                                OverallBudgets[k].spent_amount])
        IN  /\ response.status = 200
            /\ response.body.total_budget = Round2(tb)
            /\ response.body.total_spent = Round2(ts)
            /\ response.body.total_remaining = Round2(tb - ts)
            /\ response.body.at_risk_count =
                  Cardinality({k \in 1..Len(ReturnedList) :
                                  ReturnedList[k].status = "at_risk"})

----------------------------------------------------------------------------
(* C7: all_budgets: overall_utilization is total_spent / total_budget * 100  *)
(* rounded to one decimal, and 0 without a division error when there is      *)
(* nothing to divide by.  total_budget and total_spent are the handler's     *)
(* running totals at the end of its loop; the utilization is in tenths of a  *)
(* percent.                                                                  *)

\* the handler's total_budget and total_spent when it builds the response
RunningTotals == CollectBudgets(active, outcome, Len(active))

\* as claimed: the quotient for every total_budget other than 0
C7_UtilizationUnlessBudgetIsZero ==
    Done("budgets") =>
        LET tb == RunningTotals.total_budget
            ts == RunningTotals.total_spent
            u == response.body.overall_utilization
        IN  /\ response.status = 200
            /\ tb # 0 => IsRounded(u, ts * 1000, tb)
            /\ tb = 0 => u = 0

\* as amended: the quotient for every positive total_budget, 0 for every
\* total_budget that is 0 or negative
C7_UtilizationWhenBudgetIsPositive ==
    Done("budgets") =>
        LET tb == RunningTotals.total_budget
            ts == RunningTotals.total_spent
            u == response.body.overall_utilization
        IN  /\ response.status = 200
            /\ tb > 0 => IsRounded(u, ts * 1000, tb)
            /\ tb <= 0 => u = 0

\* budgets of 10 and 5 with 4 and 6.004 spent: 66.7 percent
C7_Witness ==
    /\ Done("budgets")
    /\ Len(active) = 2
    /\ RunningTotals.total_budget = 15000
    /\ RunningTotals.total_spent = 10004
    /\ response.body.total_spent = 10000
    /\ response.body.overall_utilization = 667

----------------------------------------------------------------------------
(* C8: all_recommendations: total_potential_savings_monthly is the sum of    *)
(* potential_savings_monthly over all contributed recommendations (a missing *)
(* field counts as 0), total_potential_savings_yearly that total times 12,   *)
(* recommendation_count the length of the returned list, and the list is     *)
(* ordered by potential_savings_monthly descending.                          *)
C8_SavingsTotalsAndOrder ==
    Done("recommendations") =>
        LET total == SumAmounts([k \in 1..Len(ReturnedList) |->
                                    ReturnedList[k].potential_savings_monthly])
        IN  /\ response.status = 200
            /\ response.body.total_potential_savings_monthly = Round2(total)
            /\ response.body.total_potential_savings_yearly = Round2(total * 12)
            /\ response.body.recommendation_count = Len(ReturnedList)
            /\ Descending([k \in 1..Len(ReturnedList) |->
                            Get(ReturnedList[k].potential_savings_monthly, Num(0))])

----------------------------------------------------------------------------
(* C9: all_alerts: the returned list is ordered by created_at descending     *)
(* under string comparison (a missing created_at sorts as the empty string); *)
(* total_count is its length; severity_counts gives, for critical, high,     *)
(* warning, medium and low, the number of alerts of exactly that severity;   *)
(* unacknowledged_count is the number of alerts whose acknowledged field is  *)
(* missing or false.                                                         *)

\* what C9 says of a response that carries the alerts
AlertsOrderedAndCounted ==
    /\ Descending([k \in 1..Len(ReturnedList) |->
                    Get(ReturnedList[k].created_at, Str(<<>>))])
    /\ response.body.total_count = Len(ReturnedList)
    /\ \A sev \in {"critical", "high", "warning", "medium", "low"} :
          response.body.severity_counts[sev] =
              Cardinality({k \in 1..Len(ReturnedList) : ReturnedList[k].severity = sev})
    /\ response.body.unacknowledged_count =
          Cardinality({k \in 1..Len(ReturnedList) :
                          ReturnedList[k].acknowledged \in {Missing, Bool(FALSE)}})

C9_AlertsOrderedAndCounted ==
    Done("alerts") =>
        /\ response.status = 200
        /\ AlertsOrderedAndCounted

----------------------------------------------------------------------------
(* C10: all_anomalies returns the concatenation of the non-failing           *)
(* providers' anomalies as a permutation ordered by deviation_percent        *)
(* descending, an anomaly without the field ordered as if it were 0; no      *)
(* anomaly is dropped or duplicated.                                         *)

\* what C10 says of a response that carries the anomalies
AnomaliesMergedAndOrdered ==
    /\ IsPermutation(ReturnedList, Concatenation(NonFailing, Len(active)))
    /\ Descending([k \in 1..Len(ReturnedList) |->
                    Get(ReturnedList[k].deviation_percent, Num(0))])

C10_AnomaliesMergedAndOrdered ==
    Done("anomalies") =>
        /\ response.status = 200
        /\ AnomaliesMergedAndOrdered

----------------------------------------------------------------------------
(* C11: in all_forecasts total_current_mtd and total_projected_eom, and in   *)
(* all_services_breakdown total_cost and total_services, are the sums of the *)
(* two fields over exactly the providers whose entry in the providers map is *)
(* a result and not an error entry.                                          *)

\* the active providers, in order, whose entry in the map is a result
ReportedResults ==
    SelectSeq([i \in ActiveIndex |-> response.body.providers[active[i]]],
              LAMBDA e : ~IsErrorEntry(e))

C11_TotalsOverReportedResults ==
    (pc = "done" /\ endpoint \in MapEndpoints /\ days_ok) =>
        LET sum_a == SumAmounts([k \in 1..Len(ReportedResults) |-> ReportedResults[k].a])
            sum_b == SumAmounts([k \in 1..Len(ReportedResults) |-> ReportedResults[k].b])
        IN  /\ response.status = 200
            /\ endpoint = "forecast" =>
                  /\ response.body.total_current_mtd = Round2(sum_a)
                  /\ response.body.total_projected_eom = Round2(sum_b)
            /\ endpoint = "breakdown" =>
                  /\ response.body.total_cost = Round2(sum_a)
                  /\ response.body.total_services = sum_b

----------------------------------------------------------------------------
(* Vocabulary of the factory properties. *)

\* the positions of the log at which create was called
Creates == {k \in 1..Len(calls) : calls[k].op = "create"}

\* two identifiers are the same name in some casing
SameName(a, b) == lower(a) = lower(b)

\* the registrations made before call k under the name id, in some casing
RegisteredBefore(k, id) ==
    {j \in 1..(k - 1) : calls[j].op = "register_provider" /\ SameName(calls[j].name, id)}

Latest(S) == CHOOSE j \in S : \A i \in S : i <= j

\* call k raised "Unsupported provider" and called no constructor
Unsupported(k) ==
    /\ calls[k].returned.kind = "raise"
    /\ calls[k].returned.error = ValueError("Unsupported provider")
    /\ calls[k].constructed = <<>>

\* call k constructed cls(cfg) with the config it was given, and nothing else
Constructs(k, cls) ==
    /\ calls[k].constructed = <<cls>>
    /\ calls[k].returned = __init__(cls, calls[k].config, sdk)

----------------------------------------------------------------------------
(* C12: while USE_MOCK_DATA is true, create(providerId, cfg) returns a Mock  *)
(* adapter for every providerId, registered or not, and every content of    *)
(* cfg, and the adapter's provider_name is the requested providerId.        *)
C12_MockModeAlwaysMock ==
    use_mock =>
        \A k \in Creates :
            /\ calls[k].returned.kind = "instance"
            /\ calls[k].returned.cls = "MockProvider"
            /\ calls[k].constructed = <<"MockProvider">>
            /\ calls[k].returned.provider_name = calls[k].provider

\* in mock mode, an unregistered identifier and a config that already has a
\* name of its own
C12_Witness ==
    /\ use_mock
    /\ \E k \in Creates :
          /\ calls[k].provider = "oracle"
          /\ RegisteredBefore(k, "oracle") = {}
          /\ calls[k].config.name = "prod"
          /\ calls[k].returned.provider_name = "oracle"

----------------------------------------------------------------------------
(* C13: while the mock flag is not set and nothing has been registered,      *)
(* create looks the identifier up case-insensitively in the registry {aws,  *)
(* azure, gcp, mock, mock_aws, mock_azure, mock_gcp}: any casing of a        *)
(* registered name constructs that name's class, every other identifier      *)
(* fails with "Unsupported provider" and constructs nothing.                 *)

\* the registry the claim lists
ClaimedRegistry ==
    [n \in {"aws", "azure", "gcp", "mock", "mock_aws", "mock_azure", "mock_gcp"} |->
        CASE n = "aws" -> "AWSProvider"
          [] n = "azure" -> "AzureProvider"
          [] n = "gcp" -> "GCPProvider"
          [] OTHER -> "MockProvider"]

C13_CaseInsensitiveLookup ==
    ~use_mock =>
        \A k \in Creates :
            (\A j \in 1..(k - 1) : calls[j].op = "create") =>
                IF \E n \in DOMAIN ClaimedRegistry : SameName(n, calls[k].provider)
                THEN \A n \in DOMAIN ClaimedRegistry :
                        SameName(n, calls[k].provider) => Constructs(k, ClaimedRegistry[n])
                ELSE Unsupported(k)

\* "AWS" builds the AWS adapter and "oracle" is refused, in one process
C13_Witness ==
    /\ ~use_mock
    /\ \A k \in 1..Len(calls) : calls[k].op = "create"
    /\ \E k \in Creates :
          /\ calls[k].provider = "AWS"
          /\ calls[k].returned.kind = "instance"
          /\ calls[k].returned.cls = "AWSProvider"
    /\ \E k \in Creates : calls[k].provider = "oracle" /\ Unsupported(k)

----------------------------------------------------------------------------
(* C14: after register_provider(name, cls), every later create(id, cfg)      *)
(* whose id is name in any casing constructs cls(cfg) (mock flag not set),  *)
(* until the same name is registered again; identifiers that were            *)
(* unsupported and have not been registered stay unsupported.                *)
C14_RegistrationPersists ==
    ~use_mock =>
        \A k \in Creates :
            LET regs == RegisteredBefore(k, calls[k].provider)
            IN  IF regs # {}
                THEN Constructs(k, calls[Latest(regs)].provider_class)
                ELSE (lower(calls[k].provider) \notin DOMAIN InitialProviders)
                        => Unsupported(k)

\* "Oracle" is registered, then "oracle" is created twice and both calls
\* construct the registered class
C14_Witness ==
    /\ ~use_mock
    /\ Len(calls) = 3
    /\ calls[1].op = "register_provider"
    /\ calls[1].name = "Oracle"
    /\ calls[1].provider_class = "CustomProvider"
    /\ calls[2].op = "create" /\ calls[2].provider = "oracle"
    /\ calls[3].op = "create" /\ calls[3].provider = "oracle"
    /\ calls[2].returned.cls = "CustomProvider"
    /\ calls[3].returned.cls = "CustomProvider"

----------------------------------------------------------------------------
(* Vocabulary of the adapter properties. *)

\* the object has just been asked for op
After(op) == pc \in {"ready", "failed"} /\ adapter.op = op

\* the config key an error message names
KeyNamed(error) ==
    CASE error.message = "AWS account_id required" -> "account_id"
      [] error.message = "Azure subscription_id required" -> "subscription_id"
      [] OTHER -> Absent

\* the class whose constructor was called lacks the key it needs
LacksKey ==
    \/ adapter.args.cls = "AWSProvider" /\ adapter.args.config.account_id = Absent
    \/ adapter.args.cls = "AzureProvider" /\ adapter.args.config.subscription_id = Absent

RequiredKey == IF adapter.args.cls = "AWSProvider" THEN "account_id" ELSE "subscription_id"

\* the SDK of the class whose constructor was called could be imported
SdkInstalled == IF adapter.args.cls = "AWSProvider" THEN sdk.aws ELSE sdk.azure

\* validation ran once, and no SDK call was made before the constructor
\* returned or raised
ValidatedOnceBeforeSdk ==
    /\ adapter.kind # "none" => adapter.validations = 1
    /\ After("__init__") => adapter.sdk_calls = 0

----------------------------------------------------------------------------
(* C15: the config is validated exactly once, in the constructor and before  *)
(* any SDK call; constructing the AWS adapter without account_id, or the     *)
(* Azure adapter without subscription_id, raises an error naming the missing *)
(* key and yields no object; constructing the Mock adapter never fails.      *)

\* as claimed: the error names the missing key
C15_MissingKeyIsNamed ==
    /\ ValidatedOnceBeforeSdk
    /\ (After("__init__") /\ LacksKey) =>
          /\ adapter.kind = "raise"
          /\ KeyNamed(adapter.error) = RequiredKey
    /\ (After("__init__") /\ adapter.args.cls = "MockProvider") =>
          adapter.kind = "instance"

\* as amended: the error names the missing key when the SDK could be
\* imported, and is the ImportError about the SDK when it could not
C15_MissingKeyOrMissingSdk ==
    /\ ValidatedOnceBeforeSdk
    /\ (After("__init__") /\ LacksKey) =>
          /\ adapter.kind = "raise"
          /\ SdkInstalled => KeyNamed(adapter.error) = RequiredKey
          /\ ~SdkInstalled => adapter.error.type = "ImportError"
    /\ (After("__init__") /\ adapter.args.cls = "MockProvider") =>
          adapter.kind = "instance"

\* AWSProvider({'subscription_id': ...}) with boto3 installed
C15_Witness ==
    /\ After("__init__")
    /\ adapter.args.cls = "AWSProvider"
    /\ adapter.args.config.account_id = Absent
    /\ adapter.args.config.subscription_id # Absent
    /\ sdk.aws
    /\ adapter.kind = "raise"
    /\ adapter.error = ValueError("AWS account_id required")

----------------------------------------------------------------------------
(* C16: get_mtd_total() is the sum of the cost fields of the items           *)
(* get_mtd_costs() returns (an item without cost counts as 0), is 0 when     *)
(* get_mtd_costs() fails, and never raises.                                  *)
C16_TotalIsSumOrZero ==
    After("get_mtd_total") =>
        LET costs == adapter.args.costs
        IN  /\ adapter.result.kind = "return"
            /\ costs.kind = "raise" => adapter.result.value = 0
            /\ costs.kind = "return" =>
                  adapter.result.value =
                      SumAmounts([k \in 1..Len(costs.value) |-> costs.value[k].cost])
            /\ (costs.kind = "return" /\ \A k \in 1..Len(costs.value) :
                                            costs.value[k].error # Absent) =>
                  adapter.result.value = 0

\* a subclass whose get_mtd_costs raises
C16_Witness ==
    /\ After("get_mtd_total")
    /\ adapter.args.costs.kind = "raise"
    /\ adapter.result = Return(0)

----------------------------------------------------------------------------
(* C17: get_mtd_costs of the AWS and Azure adapters never raises: on success *)
(* it returns the cost items ordered by cost descending, on a failure of     *)
(* session, client, query or parsing exactly one element that carries the    *)
(* error marker, and no cost item.                                           *)

\* the cloud answered and every amount parsed
Succeeded(answer) ==
    /\ answer.fails = "none"
    /\ \A k \in 1..Len(answer.rows) : answer.rows[k].amount.t = "num"

C17_CostsOrOneErrorMarker ==
    (After("get_mtd_costs") /\ adapter.cls \in {"AWSProvider", "AzureProvider"}) =>
        LET answer == adapter.args.env
            items == adapter.result.value
        IN  /\ adapter.result.kind = "return"
            /\ Succeeded(answer) =>
                  /\ IsPermutation(items,
                        [k \in 1..Len(answer.rows) |->
                            [service |-> answer.rows[k].service,
                             cost |-> answer.rows[k].amount, error |-> Absent]])
                  /\ Descending([k \in 1..Len(items) |-> items[k].cost])
            /\ ~Succeeded(answer) =>
                  /\ Len(items) = 1
                  /\ items[1].error # Absent
                  /\ items[1].cost = Missing

\* the second of two rows does not parse
C17_Witness ==
    /\ After("get_mtd_costs")
    /\ adapter.cls = "AzureProvider"
    /\ adapter.args.env.fails = "none"
    /\ Len(adapter.args.env.rows) = 2
    /\ adapter.args.env.rows[1].amount.t = "num"
    /\ adapter.args.env.rows[2].amount.t = "str"
    /\ Len(adapter.result.value) = 1
    /\ adapter.result.value[1].error # Absent

----------------------------------------------------------------------------
(* C18: for every adapter, metric type and minutes value the get_timeseries  *)
(* result has a timestamp sequence and a value sequence of equal length; for *)
(* a metric type the adapter does not support, and on error paths, both are  *)
(* present and empty.                                                        *)
C18_SeriesPresentAndEqual ==
    After("get_timeseries") =>
        /\ "ts" \in adapter.result.keys
        /\ adapter.result.keys \cap {"cpu_percent", "memory_percent", "values"} # {}
        /\ Len(adapter.result.ts) = Len(adapter.result.values)
        /\ (adapter.cls = "AWSProvider" /\ adapter.args.metric_type # "cpu") =>
              adapter.result.ts = <<>> /\ adapter.result.values = <<>>
        /\ "error" \in adapter.result.keys =>
              adapter.result.ts = <<>> /\ adapter.result.values = <<>>

----------------------------------------------------------------------------
(* C19: every get_mtd_costs call on a Mock adapter returns the same five     *)
(* named services, each cost within 10 percent of its fixed base value       *)
(* whatever earlier calls returned, ordered by cost descending.              *)

\* the base cost, in cents, of the service an item names
BaseCost(item) ==
    LET k == CHOOSE k \in 1..Len(services) : services[k].service = item.service
    IN  services[k].cost

FiveServicesDescending ==
    LET items == adapter.result.value
    IN  /\ Len(items) = 5
        /\ {items[k].service : k \in 1..Len(items)} =
              {"Compute Engine", "Cloud Storage", "BigQuery", "Cloud SQL",
               "Kubernetes Engine"}
        /\ Descending([k \in 1..Len(items) |-> items[k].cost])

\* as claimed: within 10 percent (costs in thousandths, bases in cents)
C19_WithinTenPercent ==
    (After("get_mtd_costs") /\ adapter.cls = "MockProvider") =>
        /\ FiveServicesDescending
        /\ \A k \in 1..Len(adapter.result.value) :
              LET item == adapter.result.value[k]
              IN  /\ item.cost.v >= 9 * BaseCost(item)
                  /\ item.cost.v <= 11 * BaseCost(item)

\* as amended: within 10 percent up to the rounding to cents, that is at
\* most half a cent outside
C19_WithinTenPercentRounded ==
    (After("get_mtd_costs") /\ adapter.cls = "MockProvider") =>
        /\ FiveServicesDescending
        /\ \A k \in 1..Len(adapter.result.value) :
              LET item == adapter.result.value[k]
              IN  /\ item.cost.v >= 9 * BaseCost(item) - 5
                  /\ item.cost.v <= 11 * BaseCost(item) + 5
                  /\ item.cost.v % 10 = 0

\* a second call on the same object, with the largest jitter on the largest
\* service
C19_Witness ==
    /\ After("get_mtd_costs")
    /\ adapter.cls = "MockProvider"
    /\ adapter.ops = 2
    /\ adapter.result.value[1].service = "Kubernetes Engine"
    /\ adapter.result.value[1].cost = Num(2268000)

----------------------------------------------------------------------------
(* C20: on a Mock adapter get_anomalies, get_recommendations, get_alerts and *)
(* get_budgets return non-empty lists and get_forecast returns non-empty     *)
(* forecast data.                                                            *)
C20_MockExtensionsNonTrivial ==
    (pc = "ready" /\ adapter.cls = "MockProvider") =>
        /\ adapter.op \in {"get_anomalies", "get_recommendations", "get_alerts",
                           "get_budgets"} => adapter.result # <<>>
        /\ adapter.op = "get_forecast" => adapter.result.forecast_data # <<>>

----------------------------------------------------------------------------
(* C21: the default get_services_breakdown partitions the items of           *)
(* get_mtd_costs by category (an item without one goes to "Other"): each     *)
(* item is in exactly one category's services, a category's total_cost is    *)
(* the sum of its items' costs and service_count their number, categories    *)
(* are ordered by total_cost descending, total_cost is the sum of all item   *)
(* costs, total_services the number of items, category_count the number of   *)
(* distinct categories; when get_mtd_costs raises the result is zeroed.      *)

RECURSIVE AllServices(_)
\* the services lists of a breakdown, one after the other
AllServices(breakdown) ==
    IF breakdown = <<>> THEN <<>>
    ELSE Head(breakdown).services \o AllServices(Tail(breakdown))

\* the category an item belongs to: its category field, "Other" without one
CategoryField(item) ==
    IF "category" \notin DOMAIN item THEN "Other"
    ELSE IF item.category = Absent THEN "Other" ELSE item.category

CostsOf(items) == [k \in 1..Len(items) |-> items[k].cost]

C21_BreakdownPartitionsByCategory ==
    After("get_services_breakdown") =>
        LET costs == adapter.args.costs
            items == costs.value
            r == adapter.result
            b == r.breakdown
        IN  /\ costs.kind = "raise" => r = ZeroedBreakdown
            /\ costs.kind = "return" =>
                  /\ IsPermutation(AllServices(b), items)
                  /\ \A c, e \in 1..Len(b) : b[c].category = b[e].category => c = e
                  /\ \A c \in 1..Len(b) :
                        /\ \A k \in 1..Len(b[c].services) :
                              b[c].category = CategoryField(b[c].services[k])
                        /\ b[c].total_cost = SumAmounts(CostsOf(b[c].services))
                        /\ b[c].service_count = Len(b[c].services)
                  /\ \A c \in 1..(Len(b) - 1) : b[c].total_cost >= b[c + 1].total_cost
                  /\ r.total_cost = SumAmounts(CostsOf(items))
                  /\ r.total_services = Len(items)
                  /\ r.category_count =
                        Cardinality({CategoryField(items[k]) : k \in 1..Len(items)})

\* three items in two categories, the category entered second being the
\* more expensive one
C21_Witness ==
    /\ After("get_services_breakdown")
    /\ adapter.args.costs.kind = "return"
    /\ Len(adapter.args.costs.value) = 3
    /\ CategoryField(adapter.args.costs.value[1]) = "Database"
    /\ CategoryField(adapter.args.costs.value[2]) = "Compute"
    /\ adapter.result.category_count = 2
    /\ adapter.result.breakdown[1].category = "Compute"
    /\ adapter.result.breakdown[1].service_count = 2

----------------------------------------------------------------------------
(* Vocabulary of the protected routes. *)

\* the request carries a Bearer token that is valid, not expired, has a sub
\* claim and names a user of the database
Authenticated ==
    /\ request.authorization.scheme = "Bearer "
    /\ request.authorization.token.kind = "signed"
    /\ request.authorization.token.sub \notin {Absent, ""}
    /\ \E u \in db.users : u.username = request.authorization.token.sub

\* the role of the user the token names is one the route allows
RoleAllowed ==
    \E u \in db.users :
        /\ u.username = request.authorization.token.sub
        /\ u.role \in {"admin", "viewer"}

\* the handler of the route was called
HandlerRan == pc = "done" /\ response.status \notin {401, 403}

\* what CloudProviderFactory.create does for the request
RequestCreate ==
    create(request.provider, outcome.config, use_mock, _providers, sdk).returned

----------------------------------------------------------------------------
(* C22: for every single-provider endpoint and every value of its query      *)
(* parameters, when is_provider_configured(provider) is false the response   *)
(* is the 404 "not configured" error and no adapter is constructed; an       *)
(* exception escaping the factory or the operation yields a 500 response     *)
(* carrying the exception's message.                                         *)
C22_NotConfiguredIs404 ==
    (HandlerRan /\ endpoint \in SingleEndpoints) =>
        /\ ~outcome.configured =>
              /\ response = NotConfigured(request.provider)
              /\ calls = <<>>
              /\ adapter = NoAdapter
        /\ (outcome.configured /\ (ParsesInt(endpoint) => days_ok)
                /\ ~outcome.config_raises) =>
              /\ RequestCreate.kind = "raise" =>
                    response = Error500(RequestCreate.error.message)
              /\ (RequestCreate.kind = "instance" /\ outcome.op = "raise") =>
                    response = Error500("operation failed")

----------------------------------------------------------------------------
(* C23: CloudProviderFactory.create leaves the config mapping its caller     *)
(* passed unchanged, leaves the provider registry unchanged and only reads   *)
(* the mock-mode flag, in mock mode as well as in normal mode.               *)

\* the step is a call of create
CreateStep == Len(calls') = Len(calls) + 1 /\ calls'[Len(calls')].op = "create"

C23_CreateMutatesNothing ==
    /\ [](\A k \in Creates : calls[k].config_after = calls[k].config)
    /\ [][CreateStep => (_providers' = _providers /\ use_mock' = use_mock)]_vars

----------------------------------------------------------------------------
(* C24: in unified_costs_summary a provider whose adapter was constructed    *)
(* always gets an entry with status "active": when its cost query fails,     *)
(* get_mtd_costs returns the error marker, get_mtd_total returns 0 and the   *)
(* entry reports mtd_cost 0; status "error" occurs only when get_config or   *)
(* the construction of the adapter raises.                                   *)

\* what create returns for the i-th active provider
Constructed(i) ==
    create(active[i], outcome[i].config, use_mock, _providers, sdk).returned

\* the cost query of the i-th provider's adapter fails
CostQueryFails(i) ==
    /\ Constructed(i).cls \in {"AWSProvider", "AzureProvider"}
    /\ ~Succeeded(outcome[i].env)

C24_ConstructedMeansActive ==
    Done("summary") =>
        /\ Len(response.body) = Len(active)
        /\ \A i \in ActiveIndex :
              LET entry == response.body[i]
                  built == ~outcome[i].config_raises /\ Constructed(i).kind = "instance"
              IN  /\ built => entry.status = "active" /\ entry.error = Absent
                  /\ (built /\ CostQueryFails(i)) => entry.mtd_cost = Num(0)
                  /\ ~built => IsErrorSummary(entry)

\* the Cost Explorer query of the aws adapter fails
C24_Witness ==
    /\ Done("summary")
    /\ Len(active) = 2
    /\ active[1] = "aws"
    /\ ~outcome[1].config_raises
    /\ Constructed(1).cls = "AWSProvider"
    /\ outcome[1].env.fails = "query"
    /\ response.body[1].status = "active"
    /\ response.body[1].mtd_cost = Num(0)

----------------------------------------------------------------------------
(* C25: in all_recommendations and all_budgets a provider that raises        *)
(* part-way through the per-item loop contributes nothing: none of its items *)
(* is in the returned list and total_potential_savings_monthly, total_budget *)
(* and total_spent include none of its amounts, so that the totals equal the *)
(* sums over the items actually returned.                                    *)
C25_TotalsOverReturnedItems ==
    (pc = "done" /\ endpoint \in {"recommendations", "budgets"}
        /\ response.status = 200) =>
        /\ \A i \in ActiveIndex : LoopRaises(i) => TaggedWith(active[i]) = <<>>
        /\ endpoint = "recommendations" =>
              response.body.total_potential_savings_monthly =
                  Round2(SumAmounts([k \in 1..Len(ReturnedList) |->
                            ReturnedList[k].potential_savings_monthly]))
        /\ endpoint = "budgets" =>
              /\ response.body.total_budget =
                    Round2(SumAmounts([k \in 1..Len(OverallBudgets) |->
                              OverallBudgets[k].budget_amount]))
              /\ response.body.total_spent =
                    Round2(SumAmounts([k \in 1..Len(OverallBudgets) |->
                              OverallBudgets[k].spent_amount]))

----------------------------------------------------------------------------
(* C30: on every protected provider route the handler runs, and an adapter   *)
(* is constructed, only after authentication succeeded: without a Bearer     *)
(* token, with an invalid or expired token, without a sub claim or for a     *)
(* user absent from the database the response is 401; on a role_required    *)
(* route the authentication check comes first, so that an unauthenticated    *)
(* request gets 401 and never 403, and an authenticated user whose role is   *)
(* not allowed gets 403.                                                     *)
C30_HandlerOnlyAfterAuthentication ==
    /\ pc \in {"authenticated", "start"} => Authenticated
    /\ (pc = "start" /\ endpoint \in RoleRoutes) => RoleAllowed
    /\ (calls # <<>> \/ adapter # NoAdapter) => Authenticated
    /\ pc = "done" =>
          /\ response.status = 401 <=> ~Authenticated
          /\ response.status = 403 <=>
                (Authenticated /\ endpoint \in RoleRoutes /\ ~RoleAllowed)
          /\ HandlerRan => Authenticated

\* GET /providers by a user whose role is neither admin nor viewer
C30_Witness ==
    /\ pc = "done"
    /\ endpoint = "providers"
    /\ request.authorization.token = [kind |-> "signed", sub |-> "carol"]
    /\ request.authorization.scheme = "Bearer "
    /\ response = Forbidden

----------------------------------------------------------------------------
(* Vocabulary of the account routes *)

\* the last request was served by this route
ServedBy(route) == pc = "accounts" /\ request # NoHttpRequest /\ request.route = route

Admins(database) == {u \in database.users : u.role = "admin"}

\* the role a register body asks for, read without regard to case and blanks
AsksFor(body) ==
    CASE body.role \in {"admin", " Admin "} -> "admin"
      [] body.role = "viewer" -> "viewer"
      [] body.role = Absent -> "viewer"
      [] OTHER -> "other"

\* the rows a request has added to the users table
NewUsers == db.users \ request.before.users

\* C26: register never makes a second admin: a registration that asks for
\* admin while an admin exists is stored as viewer, and one that asks for a
\* role that is neither admin nor viewer is stored as viewer
C26_AtMostOneAdmin ==
    /\ pc = "accounts" => Cardinality(Admins(db)) <= 1
    /\ (ServedBy("register") /\ response.status = 201) =>
          /\ Cardinality(NewUsers) = 1
          /\ \A u \in NewUsers :
                /\ (AsksFor(request.body) = "admin" /\ Admins(request.before) # {})
                      => u.role = "viewer"
                /\ AsksFor(request.body) = "other" => u.role = "viewer"

C26_Witness ==
    /\ ServedBy("register")
    /\ response.status = 201
    /\ AsksFor(request.body) = "admin"
    /\ Admins(request.before) # {}
    /\ \A u \in NewUsers : u.role = "viewer"
    /\ Cardinality(Admins(db)) = 1

\* the last request was a reset that carried a token with which an earlier
\* reset has succeeded
ResetWithUsedToken ==
    /\ ServedBy("reset")
    /\ request.body.token \in request.history.used

StoredTokens(database) == {tk.token : tk \in database.tokens}

\* C27, as the specification states it: a token with which a reset has
\* succeeded is stored no longer, and every later reset that carries it is
\* answered 400 "Invalid or expired token." and changes no password hash
C27_UsedTokenInvalid ==
    /\ pc = "accounts" => history.used \cap StoredTokens(db) = {}
    /\ ResetWithUsedToken =>
          /\ response = JsonError(400, "Invalid or expired token.")
          /\ db.users = request.before.users

\* C27: a token with which a reset has succeeded is stored no longer, and
\* every later reset that carries it is answered 400 and changes no state:
\* "Invalid or expired token." when the new password is not blank,
\* "Token and new password are required." when it is
C27_UsedTokenRejected ==
    /\ pc = "accounts" => history.used \cap StoredTokens(db) = {}
    /\ ResetWithUsedToken =>
          /\ response = JsonError(400,
                IF request.body.new_password = "new"
                THEN "Invalid or expired token."
                ELSE "Token and new password are required.")
          /\ db = request.before

C27_Witness ==
    /\ ResetWithUsedToken
    /\ request.body.new_password = "new"
    /\ response = JsonError(400, "Invalid or expired token.")
    /\ db = request.before

TokensOf(database, username) == {tk \in database.tokens : tk.username = username}

Usernames == {"alice", "bob"}

\* the token was issued for a user for whom a later token had been issued
\* when the last request arrived
Superseded(token) ==
    \E i, j \in 1..Len(request.history.issued) :
        /\ i < j
        /\ request.history.issued[i].token = token
        /\ request.history.issued[j].username = request.history.issued[i].username

\* the user a forgot request names, if there is one
ForgotUser ==
    IF request.body.username # ""
    THEN {u.username : u \in UsersNamed(request.before, request.body.username)}
    ELSE {u.username : u \in {v \in request.before.users :
                                 v.email = request.body.email}}

\* C28: at most one reset token is stored per username: a forgot request for
\* an existing user leaves the token it issues as the only token of that
\* user, and a reset with an earlier token of that user is rejected
C28_OneTokenPerUser ==
    /\ pc = "accounts" =>
          \A name \in Usernames : Cardinality(TokensOf(db, name)) <= 1
    /\ ServedBy("forgot") =>
          \A name \in ForgotUser :
              /\ {tk.token : tk \in TokensOf(db, name)} = {response.body.reset_token}
              /\ response.body.reset_token \notin StoredTokens(request.before)
    /\ (ServedBy("reset") /\ Superseded(request.body.token)) =>
          /\ response.status = 400
          /\ db = request.before

C28_Witness ==
    /\ ServedBy("reset")
    /\ Superseded(request.body.token)
    /\ request.body.new_password = "new"
    /\ \E i \in 1..Len(request.history.issued) :
          /\ request.history.issued[i].token = request.body.token
          /\ request.history.issued[i].username = "bob"
    /\ \E tk \in db.tokens :
          /\ tk.username = "bob"
          /\ tk.token > request.body.token
          /\ ~is_expired(tk.expires_at, now)
    /\ response = JsonError(400, "Invalid or expired token.")

\* the users whose password hash the last request has changed
HashChanged ==
    {u \in request.before.users :
        \E v \in db.users : v.username = u.username /\ v.password_hash # u.password_hash}

\* the rows that held the token of the last request when it arrived
Carried == {tk \in request.before.tokens : tk.token = request.body.token}

\* the row is past its expiry, or has none, at the instant of the request
Expired(tk) == tk.expires_at = NoExpiry \/ ~(request.at < tk.expires_at)

\* a password hash changes only by a reset that carries a token stored for
\* that user, at an instant strictly before its expires_at
HashChangesByValidReset ==
    (pc = "accounts" /\ request # NoHttpRequest) =>
        \A u \in HashChanged :
            /\ request.route = "reset"
            /\ \E tk \in Carried : tk.username = u.username /\ ~Expired(tk)

\* a reset with an unknown token or a blank new password changes no state
IdleResetChangesNothing ==
    (ServedBy("reset") /\ (Carried = {} \/ request.body.new_password # "new"))
        => db = request.before

\* C29, as the specification states it: every reset with an expired token, or
\* one without expiry, is answered 400, deletes the token and changes no
\* password
C29_ExpiredAlwaysDeleted ==
    /\ HashChangesByValidReset
    /\ IdleResetChangesNothing
    /\ ServedBy("reset") =>
          \A tk \in Carried :
              Expired(tk) => /\ response.status = 400
                             /\ tk \notin db.tokens
                             /\ db.users = request.before.users

\* C29: a password hash changes only by a reset that carries a token stored
\* for that user and not expired; a reset with a new password and an expired
\* token, or one without expiry, is answered 400, deletes the token and
\* changes no password; a reset with an unknown token or a blank new password
\* changes no state
C29_HashChangesOnlyByValidReset ==
    /\ HashChangesByValidReset
    /\ IdleResetChangesNothing
    /\ (ServedBy("reset") /\ request.body.new_password = "new") =>
          \A tk \in Carried :
              Expired(tk) => /\ response = JsonError(400, "Invalid or expired token.")
                             /\ db.tokens = request.before.tokens \ {tk}
                             /\ db.users = request.before.users

C29_Witness ==
    /\ ServedBy("reset")
    /\ request.body.new_password = "new"
    /\ \E tk \in Carried : tk.expires_at = request.at /\ tk \notin db.tokens
    /\ response = JsonError(400, "Invalid or expired token.")
    /\ db.users = request.before.users

====
